---- MODULE Spec2Model ----
(***************************************************************************)
(* Model of gcs_client's chunked object transfer engine (GCSObjFile), its  *)
(* byte accumulator (_Buffer) and the truncated exponential backoff        *)
(* decorator (common.retry) that wraps every remote call of the engine.    *)
(*                                                                         *)
(* One GCSObjFile session is modelled.  A call of the public API (read,    *)
(* write, seek, tell, close) starts in the state pc = "idle"; a call that   *)
(* needs the network continues with one step per HTTP request attempt      *)
(* (pc = "fetch" or "send") and nothing else can happen until it returns   *)
(* or raises.  The server is the environment: it answers every request     *)
(* with the status and body a GCS endpoint can produce.                    *)
(*                                                                         *)
(* Bytes are tagged by their position in the stream: the i-th byte of the  *)
(* remote object is i, the i-th byte ever passed to write() is i.  A lost, *)
(* duplicated or reordered byte therefore always shows.                    *)
(*                                                                         *)
(* The module also models the process-wide retry configuration            *)
(* (RetryParams.get_default / set_default), the lazily filled remote       *)
(* resource (base.Fillable) and the byte accumulator on its own.           *)
(*                                                                         *)
(* Six specifications share the state:                                     *)
(*   Spec           a whole session of a handle whose chunk size is usable *)
(*   SpecConstruct  the constructor alone, for any chunksize argument      *)
(*   SpecRetry      one call of a method wrapped by common.retry, for any  *)
(*                  configuration, allow-list and sequence of failures     *)
(*   SpecDefault    the default RetryParams and the objects that hold it   *)
(*   SpecFill       the attribute reads and writes of one Fillable         *)
(*   SpecBuffer     the writes, reads and clears of one _Buffer            *)
(***************************************************************************)
EXTENDS Integers, Sequences, FiniteSets, TLC

(***************************************************************************)
(* Bounds of the model.                                                    *)
(***************************************************************************)
\* Most bytes passed to write() in one session.
MaxWritten == 9

\* Block unit of the model.  The program's BLOCK_MULTIPLE is 256 * 1024
\* (gcs_object.py:33); the engine only uses it through "% BLOCK_MULTIPLE"
\* and multiples of it, so the model runs on a scaled-down unit.
BLOCK_MULTIPLE == 2

\* gcs_object.py:34
DEFAULT_BLOCK_SIZE == 4 * BLOCK_MULTIPLE

(***************************************************************************)
(* Python values.                                                          *)
(***************************************************************************)
\* An optional value is the empty set (None) or a singleton.
None == {}

Some(x) == {x}

Val(o) == CHOOSE x \in o : TRUE

Min(a, b) == IF a < b THEN a ELSE b

Max(a, b) == IF a > b THEN a ELSE b

\* range(a, b) as a sequence of position tagged bytes a+1 .. b
Bytes(a, b) == [i \in 1..(IF b > a THEN b - a ELSE 0) |-> a + i]

(***************************************************************************)
(* errors.py: classification of HTTP status codes.                         *)
(***************************************************************************)
TransientCodes == {408, 500, 502, 503, 504, 429}

FatalCodes == {404, 400, 403, 401, 416}

\* Mutant of DEFAULT_RETRY_CODES: every code of http_errors is retried
DEFAULT_RETRY_CODES_AllHttp == TransientCodes \cup FatalCodes

\* common.py:123 codes retried by default: the Transient classes
DEFAULT_RETRY_CODES == TransientCodes

\* Mutant of create_http_exception: 404 has no class of its own
create_http_exception_NoNotFound(status_code) ==
    [cls  |-> IF status_code \in TransientCodes THEN "Transient"
              ELSE IF status_code \in FatalCodes THEN "Fatal"
              ELSE "Http",
     name |-> "Http",
     code |-> status_code]

\* errors.create_http_exception: the exception raised for a status code.
\* cls is the class family, code the status carried by the exception.
create_http_exception(status_code) ==
    [cls  |-> IF status_code \in TransientCodes THEN "Transient"
              ELSE IF status_code \in FatalCodes THEN "Fatal"
              ELSE "Http",
     name |-> IF status_code = 404 THEN "NotFound" ELSE "Http",
     code |-> status_code]

(***************************************************************************)
(* common.RetryParams and the body of common.retry's wrapper.              *)
(***************************************************************************)
RetryParams(max_retries, initial_delay, max_backoff, backoff_factor, randomize) ==
    [max_retries |-> max_retries, initial_delay |-> initial_delay,
     max_backoff |-> max_backoff, backoff_factor |-> backoff_factor,
     randomize |-> randomize]

RECURSIVE Pow(_, _)
Pow(b, e) == IF e <= 0 THEN 1 ELSE b * Pow(b, e - 1)

\* Mutant of RetryGivesUp: one retry more than max_retries
RetryGivesUp_OffByOne(rp, n, code, codes) ==
    \/ rp = None
    \/ n > Val(rp).max_retries
    \/ code \notin codes

\* Mutant of RetryGivesUp: the allow-list is not consulted
RetryGivesUp_IgnoresCodes(rp, n, code, codes) ==
    \/ rp = None
    \/ n >= Val(rp).max_retries

\* Mutant of RetryGivesUp: the class of the failure decides, not the allow-list
RetryGivesUp_ByClass(rp, n, code, codes) ==
    \/ rp = None
    \/ n >= Val(rp).max_retries
    \/ code \notin TransientCodes

\* common.py:188-190  the wrapper re-raises instead of retrying
RetryGivesUp(rp, n, code, codes) ==
    \/ rp = None
    \/ n >= Val(rp).max_retries
    \/ code \notin codes

\* Mutant of RetryDelay: the delay is not clamped at max_backoff
RetryDelay_NoClamp(rp, n, delay) ==
    IF delay < Val(rp).max_backoff
    THEN Pow(Val(rp).backoff_factor, n - 1) * Val(rp).initial_delay
    ELSE delay

\* common.py:193-196  delay slept before retry number n (n already incremented)
RetryDelay(rp, n, delay) ==
    IF delay < Val(rp).max_backoff
    THEN Min(Val(rp).max_backoff,
             Pow(Val(rp).backoff_factor, n - 1) * Val(rp).initial_delay)
    ELSE delay

\* common.py:198-199  the random delay added to the sleep:
\* random.random() * initial_delay lies in [0, initial_delay); the model
\* takes the whole numbers of that interval
RandomDelays(rp) ==
    IF Val(rp).randomize /\ Val(rp).initial_delay > 0
    THEN 0..(Val(rp).initial_delay - 1)
    ELSE {0}

\* The param argument of the decorator: None, a RetryParams or the name of
\* an attribute of the instance
ParamNone == [type |-> "NoneType", value |-> None]

ParamConfig(rp) == [type |-> "RetryParams", value |-> Some(rp)]

ParamAttribute == [type |-> "str", value |-> None]

\* Mutant of ResolveRetryParams: an attribute that holds None gives the default
ResolveRetryParams_NoneIsDefault(p, hasattr, attr, dflt) ==
    IF p.type \in {"NoneType", "RetryParams"} THEN p.value
    ELSE IF hasattr /\ attr # None THEN attr
    ELSE Some(dflt)

\* common.py:174-179  the retry configuration of a call: p is the param of
\* the decorator, hasattr tells whether the instance has the attribute p
\* names, attr is the value of that attribute and dflt is
\* RetryParams.get_default()
ResolveRetryParams(p, hasattr, attr, dflt) ==
    IF p.type \in {"NoneType", "RetryParams"} THEN p.value
    ELSE IF hasattr THEN attr
    ELSE Some(dflt)

(***************************************************************************)
(* gcs_object._Buffer: a deque of spans and a running length.              *)
(***************************************************************************)
EmptyBuffer == [queue |-> << >>, size |-> 0]

BufferLen(b) == b.size

\* Mutant of BufferClear: the recorded length is not reset
BufferClear_KeepsSize(b) == [queue |-> << >>, size |-> b.size]

\* _Buffer.clear
BufferClear(b) == [queue |-> << >>, size |-> 0]

\* The bytes of a queue of spans, in order
RECURSIVE Flatten(_)
Flatten(queue) == IF queue = << >> THEN << >> ELSE Head(queue) \o Flatten(Tail(queue))

\* Mutant of BufferWrite: the span is put at the front of the queue
BufferWrite_AtFront(b, data) ==
    IF Len(data) > 0
    THEN [queue |-> <<data>> \o b.queue, size |-> b.size + Len(data)]
    ELSE b

\* _Buffer.write: empty data is ignored
BufferWrite(b, data) ==
    IF Len(data) > 0
    THEN [queue |-> Append(b.queue, data), size |-> b.size + Len(data)]
    ELSE b

\* Mutant of BufferTake: the rest of a split span is not put back
RECURSIVE BufferTake_DropsRest(_, _, _)
BufferTake_DropsRest(queue, remaining, result) ==
    IF remaining = 0
    THEN [result |-> result, queue |-> queue]
    ELSE LET data == Head(queue)
         IN  IF Len(data) > remaining
             THEN BufferTake_DropsRest(Tail(queue), 0,
                                       result \o SubSeq(data, 1, remaining))
             ELSE BufferTake_DropsRest(Tail(queue), remaining - Len(data),
                                       result \o data)

\* The while loop of _Buffer.read: pops spans, splitting the first span that
\* is longer than what remains to be read.
RECURSIVE BufferTake(_, _, _)
BufferTake(queue, remaining, result) ==
    IF remaining = 0
    THEN [result |-> result, queue |-> queue]
    ELSE LET data == Head(queue)
         IN  IF Len(data) > remaining
             THEN BufferTake(<<SubSeq(data, remaining + 1, Len(data))>> \o Tail(queue),
                             0, result \o SubSeq(data, 1, remaining))
             ELSE BufferTake(Tail(queue), remaining - Len(data), result \o data)

\* _Buffer.read(size): returns the bytes read and the buffer left
BufferRead(b, size) ==
    LET n == IF size = None \/ Val(size) > b.size THEN b.size ELSE Val(size)
        t == BufferTake(b.queue, n, << >>)
    IN  [data |-> t.result, buffer |-> [queue |-> t.queue, size |-> b.size - n]]

(***************************************************************************)
(* gcs_object.GCSObjFile: pure parts of the methods.                       *)
(***************************************************************************)
\* GCSObjFile.seek lines 358-368: absolute position for (offset, whence),
\* clamped; None when whence is invalid (ValueError)
SEEK_SET == 0

SEEK_CUR == 1

SEEK_END == 2

\* Mutant of SeekPosition: the position is not clamped at the end
SeekPosition_NoUpperClamp(off, whence, cur, total) ==
    LET position == IF whence = SEEK_SET THEN Some(off)
                    ELSE IF whence = SEEK_CUR THEN Some(cur + off)
                    ELSE IF whence = SEEK_END THEN Some(total + off)
                    ELSE None
    IN  IF position = None THEN None
        ELSE Some(Max(Val(position), 0))

\* Mutant of SeekPosition: the position is not clamped at the start
SeekPosition_NoLowerClamp(off, whence, cur, total) ==
    LET position == IF whence = SEEK_SET THEN Some(off)
                    ELSE IF whence = SEEK_CUR THEN Some(cur + off)
                    ELSE IF whence = SEEK_END THEN Some(total + off)
                    ELSE None
    IN  IF position = None THEN None
        ELSE Some(Min(Val(position), total))

SeekPosition(off, whence, cur, total) ==
    LET position == IF whence = SEEK_SET THEN Some(off)
                    ELSE IF whence = SEEK_CUR THEN Some(cur + off)
                    ELSE IF whence = SEEK_END THEN Some(total + off)
                    ELSE None
    IN  IF position = None THEN None
        ELSE Some(Max(Min(Val(position), total), 0))

\* Mutant of check_is_open: the check never raises
check_is_open_Never(isclosed) == FALSE

\* GCSObjFile._check_is_open: TRUE when it raises IOError('File is closed')
check_is_open(isclosed) == isclosed

\* GCSObjFile._check_is_writable: TRUE when it raises IOError (open for reading)
check_is_writable(m) == m = "r"

\* Mutant of check_is_readable: the check never raises
check_is_readable_Never(m) == FALSE

\* GCSObjFile._check_is_readable: TRUE when it raises IOError (open for writing)
check_is_readable(m) == m = "w"

\* Mutant of CloseIsNoop: close() goes through its body on a closed handle too
CloseIsNoop_Never(isclosed) == FALSE

\* GCSObjFile.close line 432 ("if not self.closed:"): the body is skipped
CloseIsNoop(isclosed) == isclosed

\* Mutant of WriteMustSend: a chunk is sent only once two are buffered
WriteMustSend_TwoChunks(buffered, chunk) == buffered >= 2 * chunk

\* Mutant of WriteMustSend: a chunk is sent only once more than a chunk is buffered
WriteMustSend_Strict(buffered, chunk) == buffered > chunk

\* GCSObjFile.write line 391: the test of the send loop
WriteMustSend(buffered, chunk) == buffered >= chunk

\* Mutant of SendIsSkipped: an empty final chunk is skipped as well
SendIsSkipped_Empty(data, finalize) == Len(data) = 0

\* GCSObjFile._send_data line 398: nothing to send and not the final chunk
SendIsSkipped(data, finalize) == ~(Len(data) > 0 \/ finalize)

\* Mutant of ContentRange: the end of the range is exclusive
ContentRange_ExclusiveEnd(data, begin, finalize, total) ==
    IF Len(data) = 0
    THEN [first |-> None, last |-> None, total |-> Some(total)]
    ELSE [first |-> Some(begin), last |-> Some(begin + Len(data)),
          total |-> IF finalize THEN Some(total) ELSE None]

\* Mutant of ContentRange: every range starts at the beginning of the object
ContentRange_NoBegin(data, begin, finalize, total) ==
    IF Len(data) = 0
    THEN [first |-> None, last |-> None, total |-> Some(total)]
    ELSE [first |-> Some(0), last |-> Some(Len(data) - 1),
          total |-> IF finalize THEN Some(total) ELSE None]

\* Mutant of ContentRange: the total declared is where the chunk ends
ContentRange_TotalIsEnd(data, begin, finalize, total) ==
    IF Len(data) = 0
    THEN [first |-> None, last |-> None, total |-> Some(begin)]
    ELSE [first |-> Some(begin), last |-> Some(begin + Len(data) - 1),
          total |-> IF finalize THEN Some(begin + Len(data)) ELSE None]

\* Mutant of ContentRange: positions are counted from 1
ContentRange_OneBased(data, begin, finalize, total) ==
    IF Len(data) = 0
    THEN [first |-> None, last |-> None, total |-> Some(total)]
    ELSE [first |-> Some(begin + 1), last |-> Some(begin + Len(data)),
          total |-> IF finalize THEN Some(total) ELSE None]

\* GCSObjFile._send_data lines 401-407: the Content-Range header
\* 'bytes */size', 'bytes begin-end/size' or 'bytes begin-end/*'
\* (total None stands for '*', first/last None for the leading '*')
ContentRange(data, begin, finalize, total) ==
    IF Len(data) = 0
    THEN [first |-> None, last |-> None, total |-> Some(total)]
    ELSE [first |-> Some(begin), last |-> Some(begin + Len(data) - 1),
          total |-> IF finalize THEN Some(total) ELSE None]

\* Mutant of ExpectedStatus: 200 is expected of every chunk
ExpectedStatus_AlwaysOk(range) == 200

\* GCSObjFile._send_data lines 413-416: status expected for a header
ExpectedStatus(range) == IF range.total = None THEN 308 ELSE 200

\* Mutant of ReadReturnsEmpty: only the eof flag short-circuits
ReadReturnsEmpty_EofOnly(sz, iseof) == iseof

\* GCSObjFile.read line 458: the short circuit ("size is 0 or self._eof")
ReadReturnsEmpty(sz, iseof) == sz = Some(0) \/ iseof

\* GCSObjFile.read line 461: condition of the fetch loop
\* ("not size" holds for None and for 0)
ReadMustFetch(sz, iseof, buffered) ==
    /\ ~iseof
    /\ (sz = None \/ sz = Some(0) \/ buffered < Val(sz))

\* Mutant of GetDataResult: the total of the Content-Range header is not
\* looked at
GetDataResult_TotalIgnored(resp, sz, begin, cursize) ==
    IF resp.status = 416
    THEN [data |-> << >>, eof |-> TRUE, size |-> cursize]
    ELSE [data |-> resp.body, eof |-> Len(resp.body) < sz, size |-> cursize]

\* Mutant of GetDataResult: without a total, a full chunk also sets eof
GetDataResult_EofOnFull(resp, sz, begin, cursize) ==
    IF resp.status = 416
    THEN [data |-> << >>, eof |-> TRUE, size |-> cursize]
    ELSE IF resp.total # None
    THEN [data |-> resp.body,
          eof  |-> Val(resp.total) <= begin + Len(resp.body),
          size |-> Val(resp.total)]
    ELSE [data |-> resp.body, eof |-> Len(resp.body) <= sz, size |-> cursize]

\* GCSObjFile._get_data lines 489-504: (data, eof, size) for a response
\* [status, body, total] to a request of size bytes from begin; total is
\* the total of the Content-Range header, None when the header is absent
GetDataResult(resp, sz, begin, cursize) ==
    IF resp.status = 416
    THEN [data |-> << >>, eof |-> TRUE, size |-> cursize]
    ELSE IF resp.total # None
    THEN [data |-> resp.body,
          eof  |-> Val(resp.total) <= begin + Len(resp.body),
          size |-> Val(resp.total)]
    ELSE [data |-> resp.body, eof |-> Len(resp.body) < sz, size |-> cursize]

(***************************************************************************)
(* State.                                                                  *)
(***************************************************************************)
VARIABLES
    pc,            \* "new", "rejected", "open", "failed", "idle", "fetch", "send";
                   \* in SpecRetry "retry" (in the loop of the wrapper), "done"
    mode,          \* GCSObjFile.mode
    chunksize,     \* GCSObjFile._chunksize
    offset,        \* GCSObjFile._offset       (cursor)
    gcs_offset,    \* GCSObjFile._gcs_offset   (remote cursor)
    eof,           \* GCSObjFile._eof
    size,          \* GCSObjFile.size
    buffer,        \* GCSObjFile._buffer
    closed,        \* GCSObjFile.closed
    retry_params,  \* GCSObjFile._retry_params (None or a RetryParams)
    location,      \* GCSObjFile._location
    call,          \* the call in progress: its arguments and locals
    content,       \* the remote object's bytes (read mode)
    requests,      \* the HTTP request attempts of the current (last) call
    sleeps,        \* the time.sleep() delays of the current (last) call
    written,       \* every byte passed to write() in the session, in order
    sent,          \* every byte of a PUT the server accepted, in order
    lost,          \* every byte handed to a send that raised, in order;
                   \* in SpecBuffer every byte clear() dropped
    pre,           \* the handle's fields when the current (last) call started
    ret,           \* how the last call ended
    param,         \* common.retry: the param argument of the decorator
    error_codes,   \* common.retry: the error_codes argument of the decorator
    default,       \* RetryParams.default, the process-wide configuration
    has_attr,      \* the instance has the attribute that param names
    params,        \* the RetryParams objects alive; an object is its index
    default_id,    \* the object RetryParams.default, None before it is made
    instances,     \* the GCS objects alive and the RetryParams each holds
                   \* (_retry_params), with what the constructor was given
    gcs_attrs,     \* Fillable._gcs_attrs
    inst_dict,     \* Fillable: the public names of the instance's __dict__
    data_retrieved,\* Fillable._data_retrieved
    exists,        \* Fillable._exists (None, True or False)
    taken          \* every byte _Buffer.read() returned, in order

fields == <<mode, chunksize, offset, gcs_offset, eof, size, buffer, closed,
            retry_params, location>>

\* The decorator of the wrapped method and what it resolves its
\* configuration from
wrapper == <<param, error_codes, default, has_attr>>

\* RetryParams.default and who holds it
registry == <<params, default_id, instances>>

\* The Fillable resource
resource == <<gcs_attrs, inst_dict, data_retrieved, exists>>

\* What a transfer session and a wrapped call never touch
elsewhere == <<registry, resource, taken>>

vars == <<pc, mode, chunksize, offset, gcs_offset, eof, size, buffer, closed,
          retry_params, location, call, content, requests, sleeps, written,
          sent, lost, pre, ret, param, error_codes, default, has_attr,
          params, default_id, instances, gcs_attrs, inst_dict,
          data_retrieved, exists, taken>>

\* Arguments the constructor is called with
Modes == {"r", "w", "a"}

ChunkArgs == {None, Some(BLOCK_MULTIPLE), Some(2 * BLOCK_MULTIPLE),
              Some(BLOCK_MULTIPLE + 1)}

RetryArgs == {None, Some(RetryParams(1, 1, 4, 2, FALSE))}

\* Lengths of the remote object
ObjectLengths == {0, 1, BLOCK_MULTIPLE, BLOCK_MULTIPLE + 1,
                  2 * BLOCK_MULTIPLE, 2 * BLOCK_MULTIPLE + 1}

NoCall == [op |-> "none", args |-> << >>, size |-> None, n |-> 0, delay |-> 0,
           data |-> << >>, finalize |-> FALSE]

\* op: the method; args: its arguments; outcome: "ok" or "raise"; exc: the
\* exception; code: the status of an Http exception; pos, data: the result
NoRet == [op |-> "none", args |-> << >>, outcome |-> "none", exc |-> "none",
          code |-> 0, pos |-> 0, data |-> << >>]

Snapshot == [offset |-> offset, gcs_offset |-> gcs_offset, eof |-> eof,
             size |-> size, buffer |-> buffer, closed |-> closed,
             written |-> Len(written), sent |-> Len(sent)]

\* A Python dict with no key
EmptyDict == [k \in {} |-> 0]

\* No RetryParams object, GCS object or Fillable is looked at, and no
\* _Buffer is used on its own
NothingElsewhere ==
    /\ params = << >>
    /\ default_id = None
    /\ instances = << >>
    /\ gcs_attrs = EmptyDict
    /\ inst_dict = EmptyDict
    /\ data_retrieved = FALSE
    /\ exists = None
    /\ taken = << >>

\* Every kind of chunksize argument: also 0, a negative multiple of the
\* block unit and a negative number that is not a multiple
AnyChunkArgs == ChunkArgs \cup {Some(0), Some(-BLOCK_MULTIPLE),
                                Some(-(BLOCK_MULTIPLE + 1))}

\* GCSObjFile.__init__ line 266: "chunksize or DEFAULT_BLOCK_SIZE"
\* (None and 0 are false in Python)
ChunkSizeOrDefault(arg) ==
    IF arg = None \/ arg = Some(0) THEN DEFAULT_BLOCK_SIZE ELSE Val(arg)

\* The object at the entry of GCSObjFile.__init__, called with a chunksize
\* argument of chunkargs, with the fields in the values lines 264-278 give
\* them (size has no value before _open; chunksize holds the argument until
\* line 266 is reached).  _open, _get_data and _send_data are decorated with
\* a bare @common.retry: the configuration is the attribute _retry_params,
\* which every GCSObjFile has (line 276), and the codes are the default ones
\* (RetryParams.default is created by the first get_default(), lines 97-102).
InitWith(chunkargs) ==
    /\ pc = "new"
    /\ mode \in Modes
    /\ chunksize \in chunkargs
    /\ offset = 0
    /\ eof = FALSE
    /\ gcs_offset = 0
    /\ buffer = EmptyBuffer
    /\ retry_params \in RetryArgs
    /\ closed = TRUE
    /\ size = 0
    /\ location = "none"
    /\ call = NoCall
    /\ \E l \in ObjectLengths :
          content = IF mode = "r" THEN Bytes(0, l) ELSE << >>
    /\ requests = << >>
    /\ sleeps = << >>
    /\ written = << >>
    /\ sent = << >>
    /\ lost = << >>
    /\ ret = NoRet
    /\ pre = [offset |-> 0, gcs_offset |-> 0, eof |-> FALSE, size |-> 0,
              buffer |-> EmptyBuffer, closed |-> TRUE, written |-> 0,
              sent |-> 0]
    /\ param = ParamAttribute
    /\ error_codes = DEFAULT_RETRY_CODES
    /\ default = RetryParams(5, 1, 32, 2, TRUE)
    /\ has_attr = TRUE
    /\ NothingElsewhere

\* A transfer session: the handle is given a chunk size the engine can work
\* with, or none
Init == InitWith(ChunkArgs)

\* GCSObjFile.__init__ lines 262-268: the argument checks and the choice
\* of the chunk size; ret records the chunksize argument
Construct ==
    /\ pc = "new"
    /\ IF mode \notin {"r", "w"}
       THEN /\ pc' = "rejected"
            /\ chunksize' = chunksize
            /\ ret' = [NoRet EXCEPT !.op = "init", !.args = <<chunksize>>,
                                    !.outcome = "raise", !.exc = "IOError"]
       ELSE IF ChunkSizeOrDefault(chunksize) % BLOCK_MULTIPLE # 0
       THEN /\ pc' = "rejected"
            /\ chunksize' = ChunkSizeOrDefault(chunksize)
            /\ ret' = [NoRet EXCEPT !.op = "init", !.args = <<chunksize>>,
                                    !.outcome = "raise",
                                    !.exc = "AssertionError"]
       ELSE /\ pc' = "open"
            /\ chunksize' = ChunkSizeOrDefault(chunksize)
            /\ ret' = [NoRet EXCEPT !.op = "init", !.args = <<chunksize>>]
    /\ UNCHANGED <<mode, offset, gcs_offset, eof, size, buffer, closed,
                   retry_params, location, call, content, requests, sleeps,
                   written, sent, lost, pre, wrapper, elsewhere>>

\* The except branch of common.retry's wrapper (lines 187-200) for the
\* exception exc raised by the wrapped method: either re-raise (raised is
\* the continuation of the caller) or sleep and try the method again.
RetryOrRaise(exc, raised) ==
    LET rp == ResolveRetryParams(param, has_attr, retry_params, default)
    IN  IF RetryGivesUp(rp, call.n, exc.code, error_codes)
        THEN raised /\ sleeps' = sleeps
        ELSE LET d == RetryDelay(rp, call.n + 1, call.delay)
             IN  /\ call' = [call EXCEPT !.n = @ + 1, !.delay = d]
                 /\ \E random_delay \in RandomDelays(rp) :
                       sleeps' = Append(sleeps, d + random_delay)
                 /\ UNCHANGED <<pc, fields, ret>>

\* A request attempt as it is logged
Request(method, what, first, last, total, body, status) ==
    [method |-> method, what |-> what, first |-> first, last |-> last,
     total |-> total, body |-> body, status |-> status, n |-> call.n,
     finalize |-> call.finalize]

\* Statuses the server gives to the request that opens the object
OpenStatuses == {200, 404, 503}

\* One attempt of GCSObjFile._open (lines 303-334) under common.retry,
\* with the except clause of __init__ (lines 279-283).  valid: the answer
\* carries what a 200 must carry, a JSON body with the size (read mode) or
\* the Location header of the session (write mode); without it line 314 or
\* line 326 raises an error that the retry wrapper does not catch.
OpenAttempt ==
    /\ pc = "open"
    /\ \E status \in OpenStatuses, valid \in BOOLEAN :
         /\ (status # 200 => valid)
         /\ requests' = Append(requests,
                Request(IF mode = "r" THEN "GET" ELSE "POST", "open",
                        None, None, None, << >>, status))
         /\ IF status = 200 /\ valid
            THEN /\ size' = IF mode = "r" THEN Len(content) ELSE 0
                 /\ location' = IF mode = "r" THEN "object" ELSE "session"
                 /\ closed' = FALSE
                 /\ pc' = "idle"
                 /\ call' = NoCall
                 /\ ret' = [ret EXCEPT !.outcome = "ok"]
                 /\ UNCHANGED <<mode, chunksize, offset, gcs_offset, eof, buffer,
                                retry_params, sleeps>>
            ELSE IF status = 200
            THEN /\ pc' = "failed"
                 /\ call' = NoCall
                 /\ ret' = [ret EXCEPT !.outcome = "raise",
                              !.exc = IF mode = "r" THEN "Error" ELSE "KeyError"]
                 /\ UNCHANGED <<fields, sleeps>>
            ELSE RetryOrRaise(create_http_exception(status),
                    /\ pc' = "failed"
                    /\ call' = NoCall
                    /\ ret' = [ret EXCEPT !.outcome = "raise",
                                 !.exc = IF create_http_exception(status).name
                                             = "NotFound"
                                         THEN "IOError" ELSE "Http",
                                 !.code = status]
                    /\ UNCHANGED fields)
    /\ UNCHANGED <<content, written, sent, lost, pre, wrapper, elsewhere>>

(***************************************************************************)
(* The public methods.  A call starts between calls, on an object whose    *)
(* constructor returned; pre, requests and sleeps then start afresh.       *)
(***************************************************************************)
CallStarts ==
    /\ pc = "idle"
    /\ pre' = Snapshot
    /\ requests' = << >>
    /\ sleeps' = << >>
    /\ content' = content
    /\ lost' = lost
    /\ UNCHANGED <<wrapper, elsewhere>>

\* The call ends normally
Returns(op, args, pos, data) ==
    /\ ret' = [NoRet EXCEPT !.op = op, !.args = args, !.outcome = "ok",
                            !.pos = pos, !.data = data]
    /\ pc' = "idle"
    /\ call' = NoCall

\* The call ends by raising exc before it changed anything
Raises(op, args, exc) ==
    /\ ret' = [NoRet EXCEPT !.op = op, !.args = args, !.outcome = "raise",
                            !.exc = exc]
    /\ pc' = "idle"
    /\ call' = NoCall
    /\ UNCHANGED <<fields, written, sent>>

\* The call goes on with a request: c holds its arguments and locals
Continues(to, c) ==
    /\ ret' = NoRet
    /\ pc' = to
    /\ call' = c

\* The call in progress ends because the retry wrapper re-raised the Http
\* error of status code: nothing else changes
RaisesHttp(code) ==
    /\ ret' = [NoRet EXCEPT !.op = call.op, !.args = call.args,
                            !.outcome = "raise", !.exc = "Http", !.code = code]
    /\ pc' = "idle"
    /\ call' = NoCall
    /\ UNCHANGED fields

\* GCSObjFile.tell
Tell ==
    /\ CallStarts
    /\ IF check_is_open(closed)
       THEN Raises("tell", << >>, "IOError:closed")
       ELSE /\ Returns("tell", << >>, offset, << >>)
            /\ UNCHANGED <<fields, written, sent>>

SeekOffsets == {-(3 * BLOCK_MULTIPLE), -1, 0, 1, BLOCK_MULTIPLE, 3 * BLOCK_MULTIPLE}

Whences == {SEEK_SET, SEEK_CUR, SEEK_END, 3}

\* GCSObjFile.seek
Seek ==
    /\ CallStarts
    /\ \E off \in SeekOffsets, whence \in Whences :
         LET position == SeekPosition(off, whence, offset, size)
             args == <<off, whence>>
         IN  IF check_is_open(closed) THEN Raises("seek", args, "IOError:closed")
             ELSE IF check_is_readable(mode) THEN Raises("seek", args, "IOError:mode")
             ELSE IF position = None THEN Raises("seek", args, "ValueError")
             ELSE /\ offset' = Val(position)
                  /\ gcs_offset' = Val(position)
                  /\ buffer' = BufferClear(buffer)
                  /\ Returns("seek", args, 0, << >>)
                  /\ UNCHANGED <<mode, chunksize, eof, size, closed, retry_params,
                                 location, written, sent>>

WriteLengths == {0, 1, BLOCK_MULTIPLE - 1, BLOCK_MULTIPLE, BLOCK_MULTIPLE + 1,
                 2 * BLOCK_MULTIPLE, 2 * BLOCK_MULTIPLE + 1}

\* GCSObjFile.write lines 391-392: the loop test and the pop of one chunk.
\* Either the next chunk is handed to _send_data or write() returns.
WriteLoop(b, args) ==
    IF WriteMustSend(BufferLen(b), chunksize)
    THEN LET r == BufferRead(b, Some(chunksize))
         IN  /\ buffer' = r.buffer
             /\ Continues("send", [NoCall EXCEPT !.op = "write", !.args = args,
                                                 !.data = r.data])
    ELSE /\ buffer' = b
         /\ Returns("write", args, 0, << >>)

\* GCSObjFile.write up to the first request
Write ==
    /\ CallStarts
    /\ \E len \in WriteLengths :
         LET data == Bytes(Len(written), Len(written) + len)
         IN  IF check_is_open(closed) THEN Raises("write", <<len>>, "IOError:closed")
             ELSE IF check_is_writable(mode) THEN Raises("write", <<len>>, "IOError:mode")
             ELSE /\ Len(written) + len <= MaxWritten
                  /\ size' = size + Len(data)
                  /\ written' = written \o data
                  /\ WriteLoop(BufferWrite(buffer, data), <<len>>)
                  /\ UNCHANGED <<mode, chunksize, offset, gcs_offset, eof, closed,
                                 retry_params, location, sent>>

\* GCSObjFile.close (lines 432-435) up to the request of the final chunk;
\* op and args name the caller: close() itself or __exit__
CloseBody(op, args) ==
    IF CloseIsNoop(closed)
    THEN /\ Returns(op, args, 0, << >>)
         /\ UNCHANGED <<fields, written, sent>>
    ELSE IF mode = "w"
    THEN LET r == BufferRead(buffer, None)
         IN  /\ buffer' = r.buffer
             /\ Continues("send", [NoCall EXCEPT !.op = op, !.args = args,
                                                 !.data = r.data,
                                                 !.finalize = TRUE])
             /\ UNCHANGED <<mode, chunksize, offset, gcs_offset, eof, size, closed,
                            retry_params, location, written, sent>>
    ELSE /\ closed' = TRUE
         /\ Returns(op, args, 0, << >>)
         /\ UNCHANGED <<mode, chunksize, offset, gcs_offset, eof, size, buffer,
                        retry_params, location, written, sent>>

\* GCSObjFile.close
Close ==
    /\ CallStarts
    /\ CloseBody("close", << >>)

\* exc_type of __exit__: None when the body of the with statement ended
\* normally, the class of the exception when it raised
ExcTypes == {None, Some("Exception")}

\* Mutant of ExitCloses: the handle is closed only when the body did not raise
ExitCloses_OnlyOnSuccess(exc_type) == exc_type = None

\* GCSObjFile.__exit__ line 510: close() is called whatever exc_type is
ExitCloses(exc_type) == TRUE

\* GCSObjFile.__exit__, called by the with statement when its body ends.
\* __enter__ (line 507) returns self and changes nothing, so the body of
\* the with statement is any sequence of calls on the handle.
Exit ==
    /\ CallStarts
    /\ \E exc_type \in ExcTypes :
         IF ExitCloses(exc_type)
         THEN CloseBody("exit", <<exc_type>>)
         ELSE /\ Returns("exit", <<exc_type>>, 0, << >>)
              /\ UNCHANGED <<fields, written, sent>>

\* Statuses the server gives to a PUT on the upload session
SendStatuses == {308, 200, 503, 404}

\* _send_data returned: the rest of the caller, write() line 394 and the
\* next turn of its loop, or close() line 435 (called directly or by __exit__)
SendReturns ==
    IF call.op = "write"
    THEN /\ gcs_offset' = gcs_offset + Len(call.data)
         /\ WriteLoop(buffer, call.args)
         /\ UNCHANGED <<mode, chunksize, offset, eof, size, closed,
                        retry_params, location>>
    ELSE /\ closed' = TRUE
         /\ Returns(call.op, call.args, 0, << >>)
         /\ UNCHANGED <<mode, chunksize, offset, gcs_offset, eof,
                        size, buffer, retry_params, location>>

\* One attempt of GCSObjFile._send_data (lines 396-422) under common.retry
SendAttempt ==
    /\ pc = "send"
    /\ IF SendIsSkipped(call.data, call.finalize)
       THEN /\ SendReturns
            /\ UNCHANGED <<requests, sleeps, sent>>
       ELSE \E status \in SendStatuses :
         LET range == ContentRange(call.data, gcs_offset, call.finalize, size)
         IN  /\ requests' = Append(requests,
                    Request("PUT", "data", range.first, range.last, range.total,
                            call.data, status))
             /\ IF status = ExpectedStatus(range)
                THEN /\ sent' = sent \o call.data
                     /\ sleeps' = sleeps
                     /\ SendReturns
                ELSE /\ RetryOrRaise(create_http_exception(status), RaisesHttp(status))
                     /\ sent' = sent
    /\ lost' = IF pc' = "idle" /\ ret'.outcome = "raise" THEN lost \o call.data
               ELSE lost
    /\ UNCHANGED <<content, written, pre, wrapper, elsewhere>>

ReadSizes == {None, Some(0), Some(1), Some(BLOCK_MULTIPLE),
              Some(2 * BLOCK_MULTIPLE + 1)}

\* GCSObjFile.read lines 466-468: the end of read()
ReadFinish(b, sz) ==
    LET r == BufferRead(b, sz)
    IN  /\ buffer' = r.buffer
        /\ offset' = offset + Len(r.data)
        /\ Returns("read", <<sz>>, 0, r.data)

\* GCSObjFile.read up to the first request
Read ==
    /\ CallStarts
    /\ \E sz \in ReadSizes :
         IF check_is_open(closed) THEN Raises("read", <<sz>>, "IOError:closed")
         ELSE IF check_is_readable(mode) THEN Raises("read", <<sz>>, "IOError:mode")
         ELSE IF ReadReturnsEmpty(sz, eof)
         THEN /\ Returns("read", <<sz>>, 0, << >>)
              /\ UNCHANGED <<fields, written, sent>>
         ELSE IF ReadMustFetch(sz, eof, BufferLen(buffer))
         THEN /\ Continues("fetch", [NoCall EXCEPT !.op = "read", !.args = <<sz>>,
                                                   !.size = sz])
              /\ UNCHANGED <<fields, written, sent>>
         ELSE /\ ReadFinish(buffer, sz)
              /\ UNCHANGED <<mode, chunksize, gcs_offset, eof, size, closed,
                             retry_params, location, written, sent>>

\* What the server answers to GET with 'Range: bytes=begin-(begin+sz-1)':
\* an error, 416 when the range starts at or after the end of the object,
\* otherwise the bytes of the range that exist, with or without the
\* Content-Range header that carries the object's total size
ServerResponses(begin, sz) ==
    {[status |-> st, body |-> << >>, total |-> None] : st \in {503, 404}}
    \cup
    (IF begin >= Len(content)
     THEN {[status |-> 416, body |-> << >>, total |-> None]}
     ELSE {[status |-> 206,
            body |-> SubSeq(content, begin + 1, Min(begin + sz, Len(content))),
            total |-> t] : t \in {None, Some(Len(content))}})

\* One attempt of GCSObjFile._get_data (lines 470-504) under common.retry,
\* followed, when it succeeds, by the rest of read(): lines 462-464 and the
\* next turn of the loop or the end of read().  The request is always for
\* chunksize bytes, which is never 0 (line 266), so the early return of
\* line 472 is not taken.
FetchAttempt ==
    /\ pc = "fetch"
    /\ \E resp \in ServerResponses(gcs_offset, chunksize) :
         /\ requests' = Append(requests,
                Request("GET", "data", Some(gcs_offset),
                        Some(gcs_offset + chunksize - 1), resp.total, resp.body,
                        resp.status))
         /\ IF resp.status \in {200, 206, 416}
            THEN LET res == GetDataResult(resp, chunksize, gcs_offset, size)
                     b   == BufferWrite(buffer, res.data)
                 IN  /\ eof' = res.eof
                     /\ size' = res.size
                     /\ gcs_offset' = gcs_offset + Len(res.data)
                     /\ IF ReadMustFetch(call.size, res.eof, BufferLen(b))
                        THEN /\ buffer' = b
                             /\ call' = [call EXCEPT !.n = 0, !.delay = 0]
                             /\ UNCHANGED <<pc, offset, ret>>
                        ELSE ReadFinish(b, call.size)
                     /\ UNCHANGED <<mode, chunksize, closed, retry_params, location,
                                    sleeps>>
            ELSE RetryOrRaise(create_http_exception(resp.status),
                              RaisesHttp(resp.status))
    /\ UNCHANGED <<content, written, sent, lost, pre, wrapper, elsewhere>>

Next ==
    \/ Construct
    \/ OpenAttempt
    \/ Tell
    \/ Seek
    \/ Read
    \/ FetchAttempt
    \/ Write
    \/ Close
    \/ Exit
    \/ SendAttempt

Spec == Init /\ [][Next]_vars

\* The construction of a handle alone, for every kind of chunksize argument
InitConstruct == InitWith(AnyChunkArgs)

NextConstruct ==
    \/ Construct
    \/ OpenAttempt

SpecConstruct == InitConstruct /\ [][NextConstruct]_vars

(***************************************************************************)
(* common.retry around any method f of any instance: one call of the       *)
(* wrapper, for every way of giving it its configuration.                  *)
(***************************************************************************)
\* Retry configurations
RetryConfigs ==
    {RetryParams(k, 1, 4, 2, FALSE) : k \in {0, 1, 2, 5}}
    \cup {RetryParams(2, 0, 32, 2, FALSE), RetryParams(3, 2, 5, 3, FALSE),
          RetryParams(2, 3, 2, 1, FALSE), RetryParams(2, 2, 32, 2, TRUE)}

\* Values of RetryParams.default: the one get_default() creates and one
\* that was set with set_default(2, 0)
Defaults == {RetryParams(5, 1, 32, 2, TRUE), RetryParams(2, 0, 32, 2, TRUE)}

\* error_codes arguments: the default, the timeout codes of the docstring,
\* and a list with a code of a Fatal class
AllowLists == {DEFAULT_RETRY_CODES, {408, 504}, {404, 503}}

\* What one call of f does: it returns, it raises the Http exception of a
\* status code, or it raises an exception that is not an Http one
Outcomes ==
    {[kind |-> "return", code |-> 200], [kind |-> "Error", code |-> 0]}
    \cup {[kind |-> "Http", code |-> c] : c \in {408, 503, 404}}

\* The entry of wrapped(): n = 0, delay = 0 (lines 180-183); the instance
\* is any object, with or without the attribute
InitRetry ==
    /\ pc = "retry"
    /\ param \in {ParamNone, ParamAttribute}
                 \cup {ParamConfig(rp) : rp \in RetryConfigs}
    /\ error_codes \in AllowLists
    /\ default \in Defaults
    /\ has_attr \in BOOLEAN
    /\ retry_params \in IF has_attr
                         THEN {None} \cup {Some(rp) : rp \in RetryConfigs}
                         ELSE {None}
    /\ call = [NoCall EXCEPT !.op = "f"]
    /\ mode = "r"
    /\ chunksize = DEFAULT_BLOCK_SIZE
    /\ offset = 0
    /\ eof = FALSE
    /\ gcs_offset = 0
    /\ buffer = EmptyBuffer
    /\ closed = TRUE
    /\ size = 0
    /\ location = "none"
    /\ content = << >>
    /\ requests = << >>
    /\ sleeps = << >>
    /\ written = << >>
    /\ sent = << >>
    /\ lost = << >>
    /\ ret = NoRet
    /\ pre = [offset |-> 0, gcs_offset |-> 0, eof |-> FALSE, size |-> 0,
              buffer |-> EmptyBuffer, closed |-> TRUE, written |-> 0,
              sent |-> 0]
    /\ NothingElsewhere

\* One turn of the loop of wrapped() (lines 184-200): f is called and
\* returns, or raises and the wrapper re-raises or sleeps
WrappedAttempt ==
    /\ pc = "retry"
    /\ \E out \in Outcomes :
         /\ requests' = Append(requests,
                Request("CALL", out.kind, None, None, None, << >>, out.code))
         /\ IF out.kind = "return"
            THEN /\ pc' = "done"
                 /\ call' = NoCall
                 /\ ret' = [NoRet EXCEPT !.op = "f", !.outcome = "ok"]
                 /\ UNCHANGED <<fields, sleeps>>
            ELSE IF out.kind = "Error"
            THEN /\ pc' = "done"
                 /\ call' = NoCall
                 /\ ret' = [NoRet EXCEPT !.op = "f", !.outcome = "raise",
                                         !.exc = "Error"]
                 /\ UNCHANGED <<fields, sleeps>>
            ELSE RetryOrRaise(create_http_exception(out.code),
                    /\ pc' = "done"
                    /\ call' = NoCall
                    /\ ret' = [NoRet EXCEPT !.op = "f", !.outcome = "raise",
                                            !.exc = "Http", !.code = out.code]
                    /\ UNCHANGED fields)
    /\ UNCHANGED <<content, written, sent, lost, pre, wrapper, elsewhere>>

NextRetry == WrappedAttempt

SpecRetry == InitRetry /\ [][NextRetry]_vars

(***************************************************************************)
(* common.RetryParams.get_default / set_default and base.GCS.__init__:     *)
(* the process-wide default configuration and the objects that hold it.    *)
(* A RetryParams object is its index in params, so that two names for one  *)
(* object and two objects with equal fields are told apart.                *)
(***************************************************************************)
\* Most RetryParams objects, and most GCS objects, created in one run
MaxParams == 2

MaxInstances == 2

\* common.py:74-95  the fields RetryParams() has
RetryParamsInit == RetryParams(5, 1, 32, 2, TRUE)

\* Fields given to RetryParams(...) and to set_default(...): max_retries=0,
\* and every field different from the default
ParamsArgs == {RetryParams(0, 1, 32, 2, TRUE), RetryParams(1, 2, 3, 4, FALSE)}

\* What a transfer session leaves alone is also left alone here
session == <<call, content, sleeps, written, sent, lost, pre>>

\* No handle and no wrapped call in progress
NoSession ==
    /\ mode = "r"
    /\ chunksize = DEFAULT_BLOCK_SIZE
    /\ offset = 0
    /\ eof = FALSE
    /\ gcs_offset = 0
    /\ buffer = EmptyBuffer
    /\ closed = TRUE
    /\ size = 0
    /\ location = "none"
    /\ retry_params = None
    /\ call = NoCall
    /\ content = << >>
    /\ requests = << >>
    /\ sleeps = << >>
    /\ written = << >>
    /\ sent = << >>
    /\ lost = << >>
    /\ ret = NoRet
    /\ pre = [offset |-> 0, gcs_offset |-> 0, eof |-> FALSE, size |-> 0,
              buffer |-> EmptyBuffer, closed |-> TRUE, written |-> 0,
              sent |-> 0]
    /\ param = ParamAttribute
    /\ error_codes = DEFAULT_RETRY_CODES
    /\ has_attr = TRUE

\* common.py:97-102  get_default(): objs are the objects alive and dflt is
\* the class attribute; the result is both after the call (the object
\* returned is default_id)
get_default(objs, dflt) ==
    IF dflt = None
    THEN [params |-> Append(objs, RetryParamsInit),
          default_id |-> Some(Len(objs) + 1)]
    ELSE [params |-> objs, default_id |-> dflt]

\* Mutant of set_default: the class attribute is bound to another object
set_default_Rebinds(objs, dflt, arg) ==
    LET g == get_default(objs, dflt)
    IN  IF arg.id # None
        THEN [params |-> g.params, default_id |-> arg.id]
        ELSE [params |-> Append(g.params, arg.value),
              default_id |-> Some(Len(g.params) + 1)]

\* common.py:104-119  set_default(*args, **kwargs): arg.id is the RetryParams
\* object passed as the only argument, or None when individual arguments are
\* passed, and arg.value holds the fields __init__ gives for them
set_default(objs, dflt, arg) ==
    LET g == get_default(objs, dflt)
        id == Val(g.default_id)
    IN  [params |-> [g.params EXCEPT ![id] = IF arg.id # None
                                            THEN g.params[Val(arg.id)]
                                            ELSE arg.value],
         default_id |-> g.default_id]

\* The fields of the object get_default() returns
DefaultFields(objs, dflt) ==
    LET g == get_default(objs, dflt) IN g.params[Val(g.default_id)]

\* common.py:183-191  number of calls of a wrapped method that raises the
\* Http error of code every time, n calls having failed already
RECURSIVE FailedAttempts(_, _, _, _)
FailedAttempts(rp, n, code, codes) ==
    IF RetryGivesUp(rp, n, code, codes)
    THEN n + 1
    ELSE FailedAttempts(rp, n + 1, code, codes)

\* Nothing was created yet: the class has no attribute "default"
InitDefault ==
    /\ pc = "free"
    /\ params = << >>
    /\ default_id = None
    /\ instances = << >>
    /\ default = RetryParamsInit
    /\ gcs_attrs = EmptyDict
    /\ inst_dict = EmptyDict
    /\ data_retrieved = FALSE
    /\ exists = None
    /\ taken = << >>
    /\ NoSession

\* The application creates a RetryParams object (common.py:74-95)
NewRetryParams ==
    /\ Len(params) < MaxParams
    /\ \E v \in ParamsArgs : params' = Append(params, v)
    /\ ret' = [NoRet EXCEPT !.op = "RetryParams", !.outcome = "ok"]
    /\ UNCHANGED <<pc, fields, wrapper, session, requests, default_id,
                   instances, resource, taken>>

\* RetryParams.get_default() called by the application
GetDefault ==
    /\ default_id = None => Len(params) < MaxParams
    /\ LET g == get_default(params, default_id)
       IN  /\ params' = g.params
           /\ default_id' = g.default_id
           /\ default' = DefaultFields(g.params, g.default_id)
           /\ ret' = [NoRet EXCEPT !.op = "get_default", !.outcome = "ok",
                                   !.pos = Val(g.default_id)]
    /\ UNCHANGED <<pc, fields, param, error_codes, has_attr, session,
                   requests, instances, resource, taken>>

\* RetryParams.set_default(...) with one of the objects alive or with
\* individual arguments
SetDefault ==
    /\ default_id = None => Len(params) < MaxParams
    /\ \E arg \in {[id |-> Some(i), value |-> params[i]] :
                      i \in 1..Len(params)}
                  \cup {[id |-> None, value |-> v] : v \in ParamsArgs} :
         LET s == set_default(params, default_id, arg)
         IN  /\ params' = s.params
             /\ default_id' = s.default_id
             /\ default' = DefaultFields(s.params, s.default_id)
             /\ ret' = [NoRet EXCEPT !.op = "set_default", !.outcome = "ok",
                                     !.args = <<arg>>]
    /\ UNCHANGED <<pc, fields, param, error_codes, has_attr, session,
                   requests, instances, resource, taken>>

\* base.py:34-46  GCS(credentials, retry_params=arg): arg is None or one of
\* the objects alive; "retry_params or RetryParams.get_default()".  The new
\* object records what it was given (arg) and the fields the RetryParams
\* it holds had at that time (initial).
NewGCS ==
    /\ Len(instances) < MaxInstances
    /\ default_id = None => Len(params) < MaxParams
    /\ \E arg \in {None} \cup {Some(i) : i \in 1..Len(params)} :
         LET g == IF arg = None
                  THEN get_default(params, default_id)
                  ELSE [params |-> params, default_id |-> default_id]
             held == IF arg = None THEN Val(g.default_id) ELSE Val(arg)
         IN  /\ params' = g.params
             /\ default_id' = g.default_id
             /\ default' = DefaultFields(g.params, g.default_id)
             /\ instances' = Append(instances,
                    [retry_params |-> held, arg |-> arg,
                     initial |-> g.params[held]])
             /\ ret' = [NoRet EXCEPT !.op = "GCS", !.outcome = "ok",
                                     !.args = <<arg>>]
    /\ UNCHANGED <<pc, fields, param, error_codes, has_attr, session,
                   requests, resource, taken>>

\* A GCS object calls one of its methods decorated with a bare @common.retry
\* (the configuration is its attribute _retry_params) and the server answers
\* every attempt with 503: requests logs the attempts
InstanceCall ==
    /\ \E i \in 1..Len(instances) :
         LET rp == ResolveRetryParams(param, has_attr,
                       Some(params[instances[i].retry_params]), default)
             k == FailedAttempts(rp, 0, 503, error_codes)
         IN  /\ requests' = [j \in 1..k |->
                    [Request("CALL", "Http", None, None, None, << >>, 503)
                         EXCEPT !.n = j - 1]]
             /\ ret' = [NoRet EXCEPT !.op = "f", !.args = <<i>>,
                                     !.outcome = "raise", !.exc = "Http",
                                     !.code = 503]
    /\ UNCHANGED <<pc, fields, wrapper, session, registry, resource, taken>>

NextDefault ==
    \/ NewRetryParams
    \/ GetDefault
    \/ SetDefault
    \/ NewGCS
    \/ InstanceCall

SpecDefault == InitDefault /\ [][NextDefault]_vars

(***************************************************************************)
(* base.Fillable: a remote resource whose attributes are fetched from the  *)
(* server the first time an attribute that the instance does not have is   *)
(* read.  _gcs_attrs and the instance's __dict__ are functions from        *)
(* attribute names to values; _get_data() is the remote fetch, which the   *)
(* server answers with the resource's data, with 404 or with another       *)
(* failure.                                                                *)
(***************************************************************************)
\* Python values of attributes: a plain value, or a dict given by the
\* values of its entries
Plain(x) == [dict |-> FALSE, values |-> <<x>>]

Dict(vs) == [dict |-> TRUE, values |-> vs]

\* Attribute names: "credentials" is the property of base.GCS, whose value
\* the instance always has (lines 107-115, 132-133) and which is kept in
\* inst_dict; "wrong_name" is an attribute no resource has
Names == {"name", "size", "owner", "credentials", "wrong_name"}

\* Values assigned by the application (the credentials given to the
\* constructor are 0) and values the server holds
LocalValues == {Plain(1), Plain(2)}

\* Data of the resource as the server returns it: an entry whose value is a
\* dict with one entry, and keys the application also sets
DataSets ==
    {[k \in {"name", "size"} |-> IF k = "name" THEN Plain(7) ELSE Plain(8)],
     [k \in {"name", "owner", "credentials"} |->
         IF k = "name" THEN Plain(7)
         ELSE IF k = "owner" THEN Dict(<<9>>) ELSE Plain(8)],
     [k \in {"owner", "size"} |->
         IF k = "owner" THEN Dict(<<9, 10>>) ELSE Plain(8)]}

\* Answers of the server to the fetch: the data, NotFound, or another
\* failure (400 BadRequest in the tests, or a 503 that outlived the retries)
FetchOutcomes ==
    {[status |-> 200, data |-> d] : d \in DataSets}
    \cup {[status |-> c, data |-> EmptyDict] : c \in {404, 400, 503}}

\* base.py:176-180  a dict with a single entry is replaced by its value
Unwrapped(v) == IF v.dict /\ Len(v.values) = 1 THEN Plain(v.values[1]) ELSE v

\* base.py:167-171  Fillable.__setattr__: the value goes to _gcs_attrs when
\* forced or when the name is already there, else into the instance
setattr(attrs, dict, name, value, force_gcs) ==
    IF force_gcs \/ name \in DOMAIN attrs
    THEN [gcs_attrs |-> [k \in DOMAIN attrs \cup {name} |->
                            IF k = name THEN value ELSE attrs[k]],
          inst_dict |-> dict]
    ELSE [gcs_attrs |-> attrs,
          inst_dict |-> [k \in DOMAIN dict \cup {name} |->
                            IF k = name THEN value ELSE dict[k]]]

\* Mutant of getattribute: the instance's own attributes are looked up first
getattribute_LocalFirst(attrs, dict, name) ==
    IF name \in DOMAIN dict THEN Some(dict[name])
    ELSE IF name \in DOMAIN attrs THEN Some(attrs[name])
    ELSE None

\* base.py:143-147  Fillable.__getattribute__: _gcs_attrs first, then the
\* normal lookup; None stands for the AttributeError that makes Python
\* call __getattr__
getattribute(attrs, dict, name) ==
    IF name \in DOMAIN attrs THEN Some(attrs[name])
    ELSE IF name \in DOMAIN dict THEN Some(dict[name])
    ELSE None

\* Mutant of GetattrFails: only a missing resource stops the fetch
GetattrFails_RefetchesData(retrieved, ex) == ex = Some(FALSE)

\* Mutant of GetattrFails: only retrieved data stops the fetch
GetattrFails_RefetchesMissing(retrieved, ex) == retrieved

\* base.py:154-155  __getattr__ raises AttributeError without a fetch
GetattrFails(retrieved, ex) == retrieved \/ ex = Some(FALSE)

\* Mutant of FetchNotFound: every failure of the fetch counts as not found
FetchNotFound_AnyFailure(status) == status # 200

\* base.py:160  the failure of the fetch is a NotFound
FetchNotFound(status) == create_http_exception(status).name = "NotFound"

\* Mutant of fill_with_data: the data is not marked as retrieved
fill_with_data_NotMarked(attrs, dict, data) ==
    [gcs_attrs |-> [k \in DOMAIN attrs \cup DOMAIN data |->
                       IF k \in DOMAIN data THEN Unwrapped(data[k])
                       ELSE attrs[k]],
     inst_dict |-> dict, data_retrieved |-> FALSE]

\* base.py:173-181  Fillable._fill_with_data: every entry of data is set
\* with force_gcs
RECURSIVE fill_entries(_, _, _, _)
fill_entries(attrs, dict, data, keys) ==
    IF keys = {} THEN [gcs_attrs |-> attrs, inst_dict |-> dict]
    ELSE LET k == CHOOSE x \in keys : TRUE
             s == setattr(attrs, dict, k, Unwrapped(data[k]), TRUE)
         IN  fill_entries(s.gcs_attrs, s.inst_dict, data, keys \ {k})

fill_with_data(attrs, dict, data) ==
    LET f == fill_entries(attrs, dict, data, DOMAIN data)
    IN  [gcs_attrs |-> f.gcs_attrs, inst_dict |-> f.inst_dict,
         data_retrieved |-> TRUE]

\* Before the constructor: no attribute at all
InitFill ==
    /\ pc = "new"
    /\ gcs_attrs = EmptyDict
    /\ inst_dict = EmptyDict
    /\ data_retrieved = FALSE
    /\ exists = None
    /\ params = << >>
    /\ default_id = None
    /\ instances = << >>
    /\ default = RetryParamsInit
    /\ taken = << >>
    /\ NoSession

\* base.py:128-135  Fillable(credentials)
FillableInit ==
    /\ pc = "new"
    /\ pc' = "idle"
    /\ gcs_attrs' = EmptyDict
    /\ inst_dict' = [k \in {"credentials"} |-> Plain(0)]
    /\ data_retrieved' = FALSE
    /\ exists' = None
    /\ requests' = << >>
    /\ ret' = [NoRet EXCEPT !.op = "init", !.outcome = "ok"]
    /\ UNCHANGED <<fields, wrapper, session, registry, taken>>

\* base.py:137-141  Fillable.obj_from_data(data, credentials)
ObjFromData ==
    /\ pc = "new"
    /\ pc' = "idle"
    /\ \E data \in DataSets :
         LET f == fill_with_data(EmptyDict,
                                 [k \in {"credentials"} |-> Plain(0)], data)
         IN  /\ gcs_attrs' = f.gcs_attrs
             /\ inst_dict' = f.inst_dict
             /\ data_retrieved' = f.data_retrieved
             /\ ret' = [NoRet EXCEPT !.op = "obj_from_data",
                                     !.args = <<data>>, !.outcome = "ok"]
    /\ exists' = None
    /\ requests' = << >>
    /\ UNCHANGED <<fields, wrapper, session, registry, taken>>

\* The read of attribute name ends
GetAttrReturns(name, value) ==
    ret' = [NoRet EXCEPT !.op = "getattr", !.args = <<name>>,
                         !.outcome = "ok", !.data = <<value>>]

GetAttrRaises(name, exc, code) ==
    ret' = [NoRet EXCEPT !.op = "getattr", !.args = <<name>>,
                         !.outcome = "raise", !.exc = exc, !.code = code]

\* The read of an attribute: __getattribute__ (lines 143-147), and
\* __getattr__ (lines 149-165) when the lookup fails; requests logs the
\* calls of _get_data() the read makes, with the data returned as body
GetAttr ==
    /\ pc = "idle"
    /\ \E name \in Names :
         LET found == getattribute(gcs_attrs, inst_dict, name)
         IN  IF found # None
             THEN /\ GetAttrReturns(name, Val(found))
                  /\ requests' = << >>
                  /\ UNCHANGED resource
             ELSE IF GetattrFails(data_retrieved, exists)
             THEN /\ GetAttrRaises(name, "AttributeError", 0)
                  /\ requests' = << >>
                  /\ UNCHANGED resource
             ELSE \E out \in FetchOutcomes :
                  /\ requests' = <<Request("GET", "data", None, None, None,
                                           out.data, out.status)>>
                  /\ IF out.status = 200
                     THEN LET f == fill_with_data(gcs_attrs, inst_dict,
                                                  out.data)
                              again == getattribute(f.gcs_attrs, f.inst_dict,
                                                    name)
                          IN  /\ exists' = Some(TRUE)
                              /\ gcs_attrs' = f.gcs_attrs
                              /\ inst_dict' = f.inst_dict
                              /\ data_retrieved' = f.data_retrieved
                              /\ IF again # None
                                 THEN GetAttrReturns(name, Val(again))
                                 ELSE GetAttrRaises(name, "AttributeError", 0)
                     ELSE IF FetchNotFound(out.status)
                     THEN /\ exists' = Some(FALSE)
                          /\ GetAttrRaises(name, "AttributeError", 0)
                          /\ UNCHANGED <<gcs_attrs, inst_dict, data_retrieved>>
                     ELSE /\ GetAttrRaises(name, "Http", out.status)
                          /\ UNCHANGED resource
    /\ UNCHANGED <<pc, fields, wrapper, session, registry, taken>>

\* The assignment of an attribute by the application:
\* Fillable.__setattr__(name, value) (lines 167-171)
SetAttr ==
    /\ pc = "idle"
    /\ \E name \in {"size", "credentials"}, value \in LocalValues :
         LET s == setattr(gcs_attrs, inst_dict, name, value, FALSE)
         IN  /\ gcs_attrs' = s.gcs_attrs
             /\ inst_dict' = s.inst_dict
             /\ ret' = [NoRet EXCEPT !.op = "setattr",
                                     !.args = <<name, value>>,
                                     !.outcome = "ok"]
    /\ requests' = << >>
    /\ UNCHANGED <<pc, fields, wrapper, session, registry, taken,
                   data_retrieved, exists>>

NextFill ==
    \/ FillableInit
    \/ ObjFromData
    \/ GetAttr
    \/ SetAttr

SpecFill == InitFill /\ [][NextFill]_vars

(***************************************************************************)
(* gcs_object._Buffer on its own: any sequence of write, read and clear.   *)
(* written, taken and lost are the bytes passed to write(), returned by    *)
(* read() and dropped by clear(), in order.                                *)
(***************************************************************************)
\* Lengths of the data passed to write()
SpanLengths == {0, 1, 2, 4}

\* size arguments of read(): None, 0, less than, equal to and more than
\* what a span holds
TakeSizes == {None} \cup {Some(n) : n \in {0, 1, 2, 4, 5}}

\* gcs_object.py:514-516  _Buffer()
InitBuffer ==
    /\ pc = "buffer"
    /\ params = << >>
    /\ default_id = None
    /\ instances = << >>
    /\ default = RetryParamsInit
    /\ gcs_attrs = EmptyDict
    /\ inst_dict = EmptyDict
    /\ data_retrieved = FALSE
    /\ exists = None
    /\ taken = << >>
    /\ NoSession

\* What the buffer operations leave alone
beside == <<pc, mode, chunksize, offset, gcs_offset, eof, size, closed,
            retry_params, location, call, content, requests, sleeps, sent,
            pre, wrapper, registry, resource>>

\* gcs_object.py:525-530  _Buffer.write(data)
WriteBuffer ==
    /\ \E n \in SpanLengths :
         /\ Len(written) + n <= MaxWritten
         /\ LET data == Bytes(Len(written), Len(written) + n)
            IN  /\ buffer' = BufferWrite(buffer, data)
                /\ written' = written \o data
                /\ ret' = [NoRet EXCEPT !.op = "write", !.args = <<data>>,
                                        !.outcome = "ok"]
    /\ UNCHANGED <<taken, lost, beside>>

\* gcs_object.py:532-550  _Buffer.read(size)
ReadBuffer ==
    /\ \E sz \in TakeSizes :
         LET r == BufferRead(buffer, sz)
         IN  /\ buffer' = r.buffer
             /\ taken' = taken \o r.data
             /\ ret' = [NoRet EXCEPT !.op = "read", !.args = <<sz>>,
                                     !.outcome = "ok", !.data = r.data]
    /\ UNCHANGED <<written, lost, beside>>

\* gcs_object.py:521-523  _Buffer.clear()
ClearBuffer ==
    /\ buffer' = BufferClear(buffer)
    /\ lost' = lost \o Flatten(buffer.queue)
    /\ ret' = [NoRet EXCEPT !.op = "clear", !.outcome = "ok"]
    /\ UNCHANGED <<written, taken, beside>>

NextBuffer ==
    \/ WriteBuffer
    \/ ReadBuffer
    \/ ClearBuffer

SpecBuffer == InitBuffer /\ [][NextBuffer]_vars

(***************************************************************************)
(* Properties.                                                             *)
(***************************************************************************)
\* Number of requests of the call that the server answered with status
Answered(status) == Cardinality({i \in 1..Len(requests) : requests[i].status = status})

\* Number of calls of the wrapped method (first attempts) in the call
FirstAttempts == Cardinality({i \in 1..Len(requests) : requests[i].n = 0})

WriteReturned == pc = "idle" /\ ret.op = "write" /\ ret.outcome = "ok"

\* C1: a write(data) that finds b bytes buffered sends exactly
\* floor((b + len(data)) / chunksize) chunks; every PUT it issues is a
\* non-final chunk of exactly chunksize bytes ('bytes first-last/*') that
\* starts at the remote cursor, which advances by chunksize per accepted
\* chunk; on return fewer than chunksize bytes are buffered, and a write that
\* stays below chunksize sends nothing.
C1_WriteSendsFullChunks ==
    LET b == pre.buffer.size
        accepted(i) == Cardinality({j \in 1..(i - 1) : requests[j].status = 308})
    IN  /\ (call.op = "write" \/ ret.op = "write") =>
             \A i \in 1..Len(requests) :
                 /\ requests[i].method = "PUT"
                 /\ ~requests[i].finalize
                 /\ Len(requests[i].body) = chunksize
                 /\ requests[i].total = None
                 /\ requests[i].first = Some(pre.gcs_offset + chunksize * accepted(i))
                 /\ requests[i].last =
                        Some(pre.gcs_offset + chunksize * accepted(i) + chunksize - 1)
        /\ WriteReturned =>
             /\ Answered(308) = (b + ret.args[1]) \div chunksize
             /\ FirstAttempts = (b + ret.args[1]) \div chunksize
             /\ gcs_offset = pre.gcs_offset
                               + chunksize * ((b + ret.args[1]) \div chunksize)
             /\ buffer.size < chunksize
             /\ (b + ret.args[1] < chunksize => requests = << >>)

\* C1 witness: a write on a non-empty buffer that sent several chunks and
\* left a partial chunk buffered
C1_Witness ==
    /\ WriteReturned
    /\ pre.buffer.size > 0
    /\ Answered(308) >= 2
    /\ buffer.size > 0

WriteCloseReturned ==
    pc = "idle" /\ ret.op = "close" /\ ret.outcome = "ok" /\ mode = "w" /\ ~pre.closed

WriteCloseEnded ==
    pc = "idle" /\ ret.op = "close" /\ mode = "w" /\ ~pre.closed

\* C3: close() of a write handle whose buffer is empty still issues the
\* finalize request: one call of the send, every attempt of it a PUT with
\* an empty body and 'Content-Range: bytes */<total>'.
C3_EmptyFinalizeNeverSkipped ==
    (WriteCloseEnded /\ pre.buffer.size = 0) =>
        /\ FirstAttempts = 1
        /\ \A i \in 1..Len(requests) :
             /\ requests[i].method = "PUT"
             /\ requests[i].finalize
             /\ requests[i].body = << >>
             /\ requests[i].first = None
             /\ requests[i].last = None
             /\ requests[i].total = Some(Len(written))

\* C3 witness: bytes were written, all of them sent as full chunks, and the
\* close made its empty finalize
C3_Witness ==
    /\ WriteCloseReturned
    /\ pre.buffer.size = 0
    /\ Len(written) > 0
    /\ lost = << >>
    /\ Len(requests) = 1

ReadReturned == pc = "idle" /\ ret.op = "read" /\ ret.outcome = "ok"

\* C4: a read(size), size > 0, returns the next size bytes of the object,
\* fewer only when the object ends first; so the results of successive
\* reads add up to the object's content from the starting cursor and an
\* empty result means that the cursor is at the end of the object.
C4_ReadReturnsSizeBytes ==
    (ReadReturned /\ ret.args[1] # None /\ ret.args[1] # Some(0)) =>
        /\ ret.data = SubSeq(content, pre.offset + 1,
                             Min(pre.offset + Val(ret.args[1]), Len(content)))
        /\ offset = pre.offset + Len(ret.data)
        /\ (ret.data = << >> => offset = Len(content))

\* C5: a read() without size returns all the bytes of the object that
\* follow the cursor in that one call, and its fetches begin at the remote
\* cursor and advance by chunksize.
C5_ReadAllReturnsRest ==
    LET fetched(i) == Cardinality({j \in 1..(i - 1) : requests[j].status = 206})
    IN  (ReadReturned /\ ret.args[1] = None) =>
            /\ ret.data = SubSeq(content, pre.offset + 1, Len(content))
            /\ offset = Len(content)
            /\ \A i \in 1..Len(requests) :
                 requests[i].first = Some(pre.gcs_offset + chunksize * fetched(i))

C7_SeekThenReadFetches ==
    [][(pc = "idle" /\ ret.op = "seek" /\ ret.outcome = "ok") =>
          /\ buffer.size = 0
          /\ gcs_offset = offset
          /\ ((pc' = "fetch" \/ ret'.op = "read") =>
                LET sz == IF pc' = "fetch" THEN call'.args[1] ELSE ret'.args[1]
                IN  (sz # None /\ sz # Some(0)) =>
                        (pc' = "fetch" /\ call'.op = "read" /\ gcs_offset' = offset))
      ]_vars

\* C8: seek(offset, whence) on an open read handle moves cursor and remote
\* cursor to the target (offset, cursor + offset or size + offset) clamped
\* into [0, size]; another whence raises ValueError and changes nothing.
C8_SeekClamps ==
    (pc = "idle" /\ ret.op = "seek" /\ ~pre.closed /\ mode = "r") =>
        LET off     == ret.args[1]
            whence  == ret.args[2]
            target  == IF whence = 0 THEN off
                       ELSE IF whence = 1 THEN pre.offset + off
                       ELSE pre.size + off
            clamped == IF target < 0 THEN 0
                       ELSE IF target > pre.size THEN pre.size ELSE target
        IN  IF whence \in {0, 1, 2}
            THEN /\ ret.outcome = "ok"
                 /\ offset = clamped
                 /\ gcs_offset = clamped
                 /\ size = pre.size
            ELSE /\ ret.outcome = "raise"
                 /\ ret.exc = "ValueError"
                 /\ offset = pre.offset
                 /\ gcs_offset = pre.gcs_offset
                 /\ buffer = pre.buffer

\* C8 witness: a seek before the start of the object, after a read
C8_Witness ==
    /\ pc = "idle" /\ ret.op = "seek" /\ ret.outcome = "ok"
    /\ ret.args = <<-1, SEEK_SET>>
    /\ pre.offset > 0
    /\ pre.buffer.size > 0
    /\ offset = 0

\* C9: a closed handle stays closed, and read, write, seek and tell on it
\* raise the closed-handle IOError, issue no request and change no field.
C9_ClosedIsFinal ==
    [][(pc = "idle" /\ closed) =>
          /\ closed'
          /\ pc' = "idle"
          /\ requests' = << >>
          /\ UNCHANGED fields
          /\ (ret'.op \in {"read", "write", "seek", "tell"} =>
                (ret'.outcome = "raise" /\ ret'.exc = "IOError:closed"))
      ]_vars

\* C9 witness: a write on a write handle that was closed after sending data
C9_Witness ==
    /\ pc = "idle" /\ closed /\ pre.closed
    /\ mode = "w"
    /\ Len(sent) > 0
    /\ ret.op = "write" /\ ret.exc = "IOError:closed"

\* C10: on an open handle read() in write mode, write() in read mode and
\* seek() in write mode raise the mode IOError, issue no request and leave
\* cursor, remote cursor, size and buffer alone; tell() returns the cursor
\* in both modes.
C10_ModeMismatch ==
    /\ (pc = "idle" /\ ~pre.closed
          /\ \/ (ret.op = "read" /\ mode = "w")
             \/ (ret.op = "write" /\ mode = "r")
             \/ (ret.op = "seek" /\ mode = "w")) =>
            /\ ret.outcome = "raise"
            /\ ret.exc = "IOError:mode"
            /\ requests = << >>
            /\ offset = pre.offset
            /\ gcs_offset = pre.gcs_offset
            /\ size = pre.size
            /\ buffer = pre.buffer
    /\ (pc = "idle" /\ ~pre.closed /\ ret.op = "tell") =>
            /\ ret.outcome = "ok"
            /\ ret.pos = pre.offset
            /\ offset = pre.offset
    /\ pc = "fetch" => mode = "r"
    /\ pc = "send" => mode = "w"

\* C10 witness: a seek on a write handle that holds buffered bytes
C10_Witness ==
    /\ pc = "idle" /\ ~pre.closed
    /\ ret.op = "seek" /\ mode = "w" /\ ret.exc = "IOError:mode"
    /\ buffer.size > 0

\* C11: close() on a handle that is already closed, in read and in write
\* mode, returns without raising, issues no request (no second finalize) and
\* leaves the handle closed and every field as it was.
C11_CloseTwiceIsNoop ==
    [][(pc = "idle" /\ closed /\ (ret'.op = "close" \/ call'.op = "close")) =>
          /\ ret'.outcome = "ok"
          /\ pc' = "idle"
          /\ requests' = << >>
          /\ sleeps' = << >>
          /\ closed'
          /\ sent' = sent
          /\ UNCHANGED fields
      ]_vars

\* C11 witness: the second close() of a write handle whose first close()
\* finalized an upload with data
C11_Witness ==
    /\ pc = "idle" /\ ret.op = "close" /\ ret.outcome = "ok"
    /\ pre.closed /\ closed
    /\ mode = "w"
    /\ Len(sent) > 0
    /\ requests = << >>

ExitEnded == pc = "idle" /\ ret.op = "exit"

\* The last request of the call is the final chunk with all the bytes that
\* were buffered when the call started, and the server accepted it
FinalChunkFlushed ==
    /\ requests # << >>
    /\ requests[Len(requests)].finalize
    /\ requests[Len(requests)].body = Flatten(pre.buffer.queue)
    /\ requests[Len(requests)].status = 200

\* C12 as stated: whatever way the body of the with statement ended, after
\* the block the handle is closed and, in write mode, every buffered byte
\* has been flushed as the final chunk.
C12_ExitAlwaysClosesAndFlushes ==
    ExitEnded =>
        /\ closed
        /\ (mode = "w" /\ ~pre.closed) => FinalChunkFlushed

\* C12 amended: __exit__ calls close() whatever way the body ended (normally
\* or by raising); when that close() returns, the handle is closed and, in
\* write mode, the buffer is empty and every byte that was buffered has been
\* flushed as the final chunk; close() raises only when the final send
\* raised, and then the Http error leaves the block, the handle is still
\* open and the bytes of the final chunk are neither buffered nor accepted.
C12_ExitRunsClose ==
    /\ ExitEnded =>
          IF ret.outcome = "ok"
          THEN /\ closed
               /\ (mode = "w" /\ ~pre.closed) =>
                     (FinalChunkFlushed /\ buffer = EmptyBuffer /\ FirstAttempts = 1)
               /\ (mode = "r" \/ pre.closed) => requests = << >>
          ELSE /\ ret.exc = "Http"
               /\ mode = "w" /\ ~pre.closed /\ ~closed
               /\ buffer = EmptyBuffer
               /\ requests # << >>
               /\ requests[Len(requests)].finalize
               /\ requests[Len(requests)].status # 200
               /\ Len(sent) = pre.sent
    /\ (pc = "send" /\ call.op = "exit") => (call.finalize /\ ~closed)

\* C12 witness: the body raised while bytes were buffered, and __exit__
\* flushed them as the final chunk and closed the handle
C12_Witness ==
    /\ ExitEnded /\ ret.outcome = "ok"
    /\ ret.args = <<Some("Exception")>>
    /\ mode = "w" /\ ~pre.closed
    /\ pre.buffer.size > 0
    /\ closed
    /\ sent = written

\* C13: every handle that exists has a chunk size that is a positive
\* multiple of BLOCK_MULTIPLE; a chunksize argument that is not a positive
\* multiple of BLOCK_MULTIPLE is rejected by the constructor before any
\* request is sent; the default chunk size is used only when no chunksize
\* is given.
C13_ChunkSizeIsPositiveMultiple ==
    /\ pc = "idle" => (chunksize > 0 /\ chunksize % BLOCK_MULTIPLE = 0)
    /\ (pc # "new" /\ ret.op = "init" /\ ret.args[1] # None
          /\ ~(Val(ret.args[1]) > 0 /\ Val(ret.args[1]) % BLOCK_MULTIPLE = 0)) =>
            (pc = "rejected" /\ requests = << >>)
    /\ (pc \in {"open", "idle", "failed"} /\ ret.op = "init"
          /\ ret.args[1] # None) => chunksize = Val(ret.args[1])

\* C14: an open whose first request is answered 200 (with the size, or the
\* session Location) has made exactly that one request, a GET in read mode
\* and a POST in write mode, and the handle is open with cursor and remote
\* cursor 0, eof false and an empty buffer, size being the object's size in
\* read mode and 0 in write mode, where the session Location is stored; an
\* open whose request is answered 404 fails with IOError, makes no further
\* request, and the handle is not open.
C14_OpenMakesOneRequest ==
    LET last == requests[Len(requests)]
    IN  /\ (ret.op = "init" /\ ret.outcome = "ok") =>
              /\ pc = "idle" /\ ~closed
              /\ offset = 0 /\ gcs_offset = 0 /\ ~eof /\ buffer = EmptyBuffer
              /\ requests # << >>
              /\ last.status = 200
              /\ (requests[1].status = 200 => Len(requests) = 1)
              /\ \A i \in 1..Len(requests) :
                    /\ requests[i].what = "open"
                    /\ requests[i].method = IF mode = "r" THEN "GET" ELSE "POST"
              /\ (mode = "r" => (size = Len(content) /\ location = "object"))
              /\ (mode = "w" => (size = 0 /\ location = "session"))
        /\ (ret.op = "init" /\ requests # << >>) =>
              /\ (last.status = 404 =>
                    /\ pc = "failed"
                    /\ ret.outcome = "raise" /\ ret.exc = "IOError"
                    /\ closed)
              /\ (pc = "open" => last.status \notin {200, 404})
        /\ pc \in {"failed", "rejected"} => closed

\* C14 witness: a read handle opened at the first attempt on an object that
\* is not empty
C14_Witness ==
    /\ pc = "idle" /\ ret.op = "init" /\ ret.outcome = "ok"
    /\ mode = "r"
    /\ Len(requests) = 1
    /\ size > 0
    /\ ~closed

(***************************************************************************)
(* Properties of one call of the retry wrapper (SpecRetry).                *)
(***************************************************************************)
\* The configuration the wrapper works with
Resolved == ResolveRetryParams(param, has_attr, retry_params, default)

WrappedCall == call.op = "f" \/ ret.op = "f"

WrappedEnded == pc = "done" /\ ret.op = "f"

\* The i-th call of f raised an Http failure whose code is in the allow-list
Retryable(i) == requests[i].what = "Http" /\ requests[i].status \in error_codes

\* The i-th call of f was the last one and its failure reached the caller
Propagated(i) ==
    /\ i = Len(requests)
    /\ WrappedEnded
    /\ ret.outcome = "raise"
    /\ ret.exc = requests[i].what
    /\ ret.code = requests[i].status
    /\ Len(sleeps) = i - 1

\* C15: with a configuration of max_retries = k and failures that are all
\* retryable, f is called until it first returns or until k + 1 calls have
\* failed: nothing is called after a return, which is the wrapper's result,
\* and when k + 1 calls failed the last failure is raised as it is.
C15_RetryUntilSuccessOrExhausted ==
    (WrappedCall /\ Resolved # None
       /\ \A i \in 1..Len(requests) : (Retryable(i) \/ requests[i].what = "return")) =>
        LET k == Val(Resolved).max_retries
            failed == {i \in 1..Len(requests) : Retryable(i)}
        IN  /\ Len(requests) <= k + 1
            /\ \A i \in 1..Len(requests) :
                  requests[i].what = "return" =>
                      (i = Len(requests) /\ WrappedEnded /\ ret.outcome = "ok")
            /\ (pc = "retry") = (Cardinality(failed) = Len(requests)
                                   /\ Len(requests) <= k)
            /\ Cardinality(failed) = k + 1 =>
                  (WrappedEnded /\ Propagated(k + 1))

\* C15 witness: max_retries = 2 and three failed calls, the last one raised
C15_Witness ==
    /\ WrappedEnded
    /\ Resolved # None /\ Val(Resolved).max_retries = 2
    /\ Len(requests) = 3
    /\ \A i \in 1..3 : Retryable(i)
    /\ ret.outcome = "raise" /\ ret.code = requests[3].status

\* C16: under the default allow-list a call of f that fails with a status
\* of a Fatal class is the only call when it is the first one, is never
\* followed by a sleep or another call, and its failure reaches the caller,
\* whatever max_retries is.
C16_FatalNotRetriedByDefault ==
    (WrappedCall /\ error_codes = DEFAULT_RETRY_CODES) =>
        \A i \in 1..Len(requests) :
            (requests[i].what = "Http" /\ requests[i].status \in FatalCodes) =>
                /\ Propagated(i)
                /\ (i = 1 => (Len(requests) = 1 /\ sleeps = << >>))

\* C16 witness: max_retries = 5, the first call answers 404 and that is all
C16_Witness ==
    /\ WrappedEnded
    /\ error_codes = DEFAULT_RETRY_CODES
    /\ Resolved # None /\ Val(Resolved).max_retries = 5
    /\ Len(requests) = 1
    /\ requests[1].status = 404
    /\ ret.outcome = "raise" /\ ret.code = 404
    /\ sleeps = << >>

C18_NoneDisablesRetries ==
    WrappedCall =>
        /\ (param.type = "NoneType"
              \/ (param.type = "str" /\ has_attr /\ retry_params = None)) =>
                /\ Len(requests) <= 1
                /\ sleeps = << >>
                /\ requests # << >> =>
                      /\ WrappedEnded
                      /\ requests[1].what # "return" => Propagated(1)
        /\ (param.type = "str" /\ WrappedEnded /\ requests # << >>
              /\ \A i \in 1..Len(requests) : Retryable(i)) =>
                Len(requests) = 1 + (IF ~has_attr THEN default.max_retries
                                     ELSE IF retry_params = None THEN 0
                                     ELSE Val(retry_params).max_retries)

\* C18 witness: the attribute holds None, the default would retry five
\* times, and the first transient failure reached the caller
C18_Witness ==
    /\ WrappedEnded
    /\ param.type = "str" /\ has_attr /\ retry_params = None
    /\ default.max_retries = 5
    /\ Len(requests) = 1
    /\ requests[1].status = 503 /\ 503 \in error_codes
    /\ ret.outcome = "raise" /\ ret.code = 503
    /\ sleeps = << >>

\* C19: a failure whose code is not in the allow-list of the decorator is
\* never retried, also when its class is Transient: with the allow-list
\* (408, 504) a 503 reaches the caller after the one call, while calls that
\* fail with 408 are repeated until max_retries retries were made.
C19_AllowListNarrowsRetries ==
    WrappedCall =>
        /\ \A i \in 1..Len(requests) :
              (requests[i].what = "Http" /\ requests[i].status \notin error_codes) =>
                  Propagated(i)
        /\ (error_codes = {408, 504} /\ Resolved # None /\ WrappedEnded
              /\ \A i \in 1..Len(requests) : requests[i].status = 408) =>
                Len(requests) = Val(Resolved).max_retries + 1

\* C19 witness: allow-list (408, 504), five retries allowed, and the 503
\* of the first call reached the caller
C19_Witness ==
    /\ WrappedEnded
    /\ error_codes = {408, 504}
    /\ Resolved # None /\ Val(Resolved).max_retries = 5
    /\ Len(requests) = 1
    /\ requests[1].status = 503
    /\ ret.outcome = "raise" /\ ret.code = 503

\* C20 as stated: only failures of a Transient class are ever retried; a
\* failure of a Fatal class, and any failure that is not an Http one,
\* reaches the caller after that one call, whatever the allow-list and
\* max_retries.
C20_OnlyTransientRetried ==
    WrappedCall =>
        \A i \in 1..Len(requests) :
            (requests[i].what = "Error"
               \/ (requests[i].what = "Http"
                     /\ requests[i].status \notin TransientCodes)) =>
                Propagated(i)

\* C20 amended: only Http failures whose code is in the allow-list are ever
\* retried; a failure that is not an Http one reaches the caller after that
\* one call whatever the allow-list and max_retries; a failure of a Fatal
\* class does so under every allow-list that does not name its code, the
\* default one included, but when the allow-list names its code it is
\* retried like any other listed code, up to max_retries times.
C20_OnlyListedHttpRetried ==
    WrappedCall =>
        /\ \A i \in 1..(Len(requests) - 1) : Retryable(i)
        /\ \A i \in 1..Len(requests) :
              /\ requests[i].what = "Error" => Propagated(i)
              /\ (requests[i].what = "Http" /\ requests[i].status \in FatalCodes
                    /\ requests[i].status \notin error_codes) => Propagated(i)
        /\ error_codes \subseteq TransientCodes =>
              \A i \in 1..(Len(requests) - 1) : requests[i].status \in TransientCodes
        /\ (Resolved # None /\ WrappedEnded /\ requests # << >>
              /\ \A i \in 1..Len(requests) :
                    (Retryable(i) /\ requests[i].status \in FatalCodes)) =>
                Len(requests) = Val(Resolved).max_retries + 1

\* C20 witness: the allow-list names 404 and the call that always answers
\* 404 was made three times with max_retries = 2
C20_Witness ==
    /\ WrappedEnded
    /\ 404 \in error_codes
    /\ Resolved # None /\ Val(Resolved).max_retries = 2
    /\ Len(requests) = 3
    /\ \A i \in 1..3 : requests[i].status = 404
    /\ ret.outcome = "raise" /\ ret.code = 404

(***************************************************************************)
(* Properties of the default retry configuration (SpecDefault).            *)
(***************************************************************************)
\* The object instance i holds
Held(i) == instances[i].retry_params

\* Instance i holds the default: it was constructed without a RetryParams,
\* or it was given the default object itself
HoldsDefault(i) == Some(Held(i)) = default_id

\* C21: get_default() always returns the same object and set_default()
\* changes the fields of that object in place: once the default exists it
\* is never another object; every GCS object constructed without a
\* RetryParams holds it; a set_default() leaves the default with the fields
\* it was given and every other RetryParams as it was; a GCS object that
\* holds the default makes max_retries + 1 attempts with the max_retries the
\* default has at the time of the call, whenever the object was constructed,
\* while an object given its own RetryParams still makes the attempts of the
\* fields it was constructed with.
C21_DefaultIsSharedInPlace ==
    [][ /\ default_id # None => default_id' = default_id
        /\ ret'.op = "get_default" => Some(ret'.pos) = default_id'
        /\ \A i \in 1..Len(instances') :
              instances'[i].arg = None =>
                 Some(instances'[i].retry_params) = default_id'
        /\ ret'.op = "set_default" =>
              /\ params'[Val(default_id')] = ret'.args[1].value
              /\ \A id \in 1..Len(params) :
                    Some(id) # default_id' => params'[id] = params[id]
        /\ ret'.op = "f" =>
              LET i == ret'.args[1]
              IN  IF Some(instances'[i].retry_params) = default_id'
                  THEN Len(requests') =
                          DefaultFields(params', default_id').max_retries + 1
                  ELSE Len(requests') = instances'[i].initial.max_retries + 1
      ]_vars

\* C21 witness: an object constructed without a RetryParams while the
\* default allowed 5 retries makes a single attempt after set_default() made
\* max_retries 0, and an object with its own RetryParams is alive
C21_Witness ==
    /\ ret.op = "f"
    /\ instances[ret.args[1]].arg = None
    /\ instances[ret.args[1]].initial.max_retries = 5
    /\ HoldsDefault(ret.args[1])
    /\ params[Held(ret.args[1])].max_retries = 0
    /\ Len(requests) = 1
    /\ \E j \in 1..Len(instances) :
          /\ ~HoldsDefault(j)
          /\ params[Held(j)] = instances[j].initial

(***************************************************************************)
(* The retry configuration of a handle (Spec).                             *)
(***************************************************************************)
\* C22: a handle constructed with retry_params=None retries with the default
\* configuration: when a request of the handle (the open request, a chunk
\* fetch or a chunk send) ends a call with the Http error of a code of the
\* default allow-list, the request was retried RetryParams.default's
\* max_retries times before.
C22_NoneUsesDefault ==
    (/\ retry_params = None
     /\ ret.outcome = "raise"
     /\ ret.exc = "Http"
     /\ ret.code \in DEFAULT_RETRY_CODES
     /\ requests # << >>)
    => requests[Len(requests)].n = default.max_retries

(***************************************************************************)
(* Properties of the lazily filled resource (SpecFill).                    *)
(***************************************************************************)
\* The attribute read by the step
ReadName == ret'.args[1]

\* The step is a read of an attribute that the instance does not have
ReadsUnknown ==
    /\ ret'.op = "getattr"
    /\ ReadName \notin (DOMAIN gcs_attrs \cup DOMAIN inst_dict)

\* The step made a fetch that the server answered with status
Fetched(status) == requests' # << >> /\ requests'[1].status = status

\* C23: a read makes at most one fetch; on a resource that was never fetched
\* the read of an unknown attribute makes exactly one; a fetch only succeeds
\* on a resource without data, and then _exists and _data_retrieved are
\* true; once they are true they stay true and no step makes a fetch, so
\* that at most one fetch ever succeeds and a second read of an unknown
\* attribute fetches nothing.
C23_FetchesOnce ==
    [][ /\ Len(requests') <= 1
        /\ (ReadsUnknown /\ ~data_retrieved /\ exists = None)
              => Len(requests') = 1
        /\ Fetched(200) => (/\ ~data_retrieved
                            /\ data_retrieved'
                            /\ exists' = Some(TRUE))
        /\ data_retrieved => (/\ data_retrieved'
                              /\ exists' = exists
                              /\ requests' = << >>)
        /\ exists = Some(TRUE) => data_retrieved
      ]_vars

\* C23 witness: after a fetch that succeeded, the read of an unknown
\* attribute failed without a fetch
C23_Witness ==
    /\ data_retrieved
    /\ exists = Some(TRUE)
    /\ ret.op = "getattr"
    /\ ret.outcome = "raise"
    /\ ret.exc = "AttributeError"
    /\ requests = << >>

\* C24: a fetch answered with NotFound makes _exists false, leaves
\* _data_retrieved false and the attributes as they were, and the read ends
\* with AttributeError; from then on _exists stays false, no step makes a
\* fetch and every read of an unknown attribute ends with AttributeError.
C24_NotFoundIsRemembered ==
    [][ /\ Fetched(404) => (/\ exists' = Some(FALSE)
                            /\ ~data_retrieved'
                            /\ gcs_attrs' = gcs_attrs
                            /\ inst_dict' = inst_dict
                            /\ ret'.outcome = "raise"
                            /\ ret'.exc = "AttributeError")
        /\ exists = Some(FALSE) =>
              /\ exists' = Some(FALSE)
              /\ ~data_retrieved'
              /\ requests' = << >>
              /\ ReadsUnknown => (/\ ret'.outcome = "raise"
                                  /\ ret'.exc = "AttributeError")
      ]_vars

\* C24 witness: on a resource known to be missing the read of an unknown
\* attribute failed without a fetch
C24_Witness ==
    /\ exists = Some(FALSE)
    /\ ~data_retrieved
    /\ ret.op = "getattr"
    /\ ret.exc = "AttributeError"
    /\ requests = << >>

\* C25: a fetch that fails with a status other than NotFound ends the read
\* with the Http error of that status and changes nothing of the resource
\* (_exists unknown, _data_retrieved false, no attribute added); the next
\* read of an unknown attribute makes the fetch again.
C25_OtherFailurePropagates ==
    [][ /\ (requests' # << >> /\ requests'[1].status \notin {200, 404}) =>
              /\ ret'.outcome = "raise"
              /\ ret'.exc = "Http"
              /\ ret'.code = requests'[1].status
              /\ UNCHANGED resource
              /\ exists' = None
              /\ ~data_retrieved'
        /\ (ret.op = "getattr" /\ ret.exc = "Http" /\ ReadsUnknown)
              => Len(requests') = 1
      ]_vars

\* C25 witness: a read ended with the BadRequest of the fetch on a resource
\* that holds a local attribute, and the resource is as before the read
C25_Witness ==
    /\ ret.op = "getattr"
    /\ ret.exc = "Http"
    /\ ret.code = 400
    /\ Len(requests) = 1
    /\ exists = None
    /\ ~data_retrieved
    /\ gcs_attrs = EmptyDict
    /\ "size" \in DOMAIN inst_dict

\* The value _fill_with_data stores for one entry of the data
Stored(v) == IF v.dict /\ Len(v.values) = 1 THEN Plain(v.values[1]) ELSE v

\* The resource was built by obj_from_data: the only way to have data
\* without a fetch
FromData == data_retrieved /\ exists = None

\* C26: obj_from_data() makes no fetch and returns a resource with
\* _data_retrieved true and every key of the data in _gcs_attrs (a dict of
\* one entry being replaced by the value of the entry); on such a
\* resource no step makes a fetch, a read of a key returns its value and a
\* read of an attribute that is neither in the data nor in the instance ends
\* with AttributeError.
C26_FromDataNeverFetches ==
    [][ /\ ret'.op = "obj_from_data" =>
              /\ data_retrieved'
              /\ exists' = None
              /\ requests' = << >>
              /\ DOMAIN gcs_attrs' = DOMAIN ret'.args[1]
              /\ \A k \in DOMAIN gcs_attrs' :
                    gcs_attrs'[k] = Stored(ret'.args[1][k])
        /\ FromData =>
              /\ data_retrieved'
              /\ exists' = None
              /\ requests' = << >>
              /\ ret'.op = "getattr" =>
                    IF ReadName \in DOMAIN gcs_attrs
                    THEN /\ ret'.outcome = "ok"
                         /\ ret'.data = <<gcs_attrs[ReadName]>>
                    ELSE IF ReadName \in DOMAIN inst_dict
                    THEN ret'.outcome = "ok"
                    ELSE /\ ret'.outcome = "raise"
                         /\ ret'.exc = "AttributeError"
      ]_vars

\* C26 witness: on a resource built from data the read of an attribute
\* absent from the data failed without a fetch
C26_Witness ==
    /\ FromData
    /\ ret.op = "getattr"
    /\ ret.args[1] \notin DOMAIN gcs_attrs
    /\ ret.exc = "AttributeError"
    /\ requests = << >>

C28_FirstWriteWins ==
    (/\ ret.op = "getattr"
     /\ ret.outcome = "ok"
     /\ ret.args[1] \in DOMAIN inst_dict)
    => ret.data = <<inst_dict[ret.args[1]]>>

(***************************************************************************)
(* Properties of the byte accumulator (SpecBuffer).                        *)
(***************************************************************************)
\* C29: as long as clear() was not called, the bytes returned by the reads
\* followed by the bytes still queued are the bytes written, in order:
\* nothing is lost, duplicated or reordered, whatever the sizes of the
\* writes and of the reads; after a read() without a size every byte
\* written has been returned and the buffer's length is 0.
C29_ReadsReturnWrites ==
    lost = << >> =>
       /\ taken \o Flatten(buffer.queue) = written
       /\ (ret.op = "read" /\ ret.args = <<None>>) =>
             /\ taken = written
             /\ buffer.queue = << >>
             /\ BufferLen(buffer) = 0

\* C29 witness: 8 bytes written, a read of 4 returned bytes 3 to 6 out of
\* two spans and left the last 2 bytes of the second span queued
C29_Witness ==
    /\ lost = << >>
    /\ written = Bytes(0, 8)
    /\ ret.op = "read"
    /\ ret.args = <<Some(4)>>
    /\ ret.data = Bytes(2, 6)
    /\ taken = Bytes(0, 6)
    /\ buffer.queue = <<Bytes(6, 8)>>

\* C30: after every operation the recorded length is the number of bytes in
\* the queued spans; a write of empty data changes nothing; read(n), n >= 0,
\* returns the first min(n, length) bytes and leaves the others; a read on
\* an empty buffer returns empty data and raises nothing; clear() leaves an
\* empty buffer.
C30_LengthIsSumOfSpans ==
    [][ /\ BufferLen(buffer') = Len(Flatten(buffer'.queue))
        /\ (ret'.op = "write" /\ ret'.args = << << >> >>) => buffer' = buffer
        /\ (ret'.op = "read" /\ ret'.args # <<None>>) =>
              LET n == Min(Val(ret'.args[1]), BufferLen(buffer))
                  all == Flatten(buffer.queue)
              IN  /\ ret'.outcome = "ok"
                  /\ ret'.data = SubSeq(all, 1, n)
                  /\ Flatten(buffer'.queue) = SubSeq(all, n + 1, Len(all))
                  /\ BufferLen(buffer') = BufferLen(buffer) - n
        /\ (ret'.op = "read" /\ BufferLen(buffer) = 0) =>
              /\ ret'.outcome = "ok"
              /\ ret'.data = << >>
              /\ buffer' = buffer
        /\ ret'.op = "clear" => (buffer'.queue = << >> /\ BufferLen(buffer') = 0)
      ]_vars

\* C30 witness: a buffer that was cleared while it held bytes, written
\* again and read with a size larger than its length: the read returned
\* the bytes of the write
C30_Witness ==
    /\ lost # << >>
    /\ ret.op = "read"
    /\ ret.args = <<Some(5)>>
    /\ Len(ret.data) = 4
    /\ BufferLen(buffer) = 0

(***************************************************************************)
(* End-to-end scenarios of a session (Spec).                               *)
(***************************************************************************)
\* The call that ended made one call of the wrapped method and every
\* attempt of it was a request for the range first-last/total with body
OneSend(first, last, total, body) ==
    /\ FirstAttempts = 1
    /\ \A i \in 1..Len(requests) :
         /\ requests[i].method = "PUT"
         /\ requests[i].first = first
         /\ requests[i].last = last
         /\ requests[i].total = total
         /\ requests[i].body = body

\* A write handle whose chunk size is 2 * BLOCK_MULTIPLE and none of whose
\* sends raised, between two calls
ScenarioHandle ==
    /\ pc = "idle"
    /\ mode = "w"
    /\ chunksize = 2 * BLOCK_MULTIPLE
    /\ lost = << >>

\* C31 as stated: after BLOCK_MULTIPLE - 1 bytes, which send nothing, a
\* write of BLOCK_MULTIPLE more bytes makes one non-final send of chunksize
\* bytes at 'bytes 0-<chunksize - 1>/*'.
C31_SecondWriteOfOneBlockSends ==
    (/\ ScenarioHandle
     /\ WriteReturned
     /\ pre.written = BLOCK_MULTIPLE - 1
     /\ pre.sent = 0
     /\ ret.args = <<BLOCK_MULTIPLE>>)
    => OneSend(Some(0), Some(chunksize - 1), None, Bytes(0, chunksize))

\* C31 amended: on a write handle with chunksize = 2 * BLOCK_MULTIPLE, a
\* first write of BLOCK_MULTIPLE - 1 bytes sends nothing; a write of
\* BLOCK_MULTIPLE + 2 more bytes then makes exactly one non-final send, of
\* the first chunksize bytes at 'bytes 0-<chunksize - 1>/*', and leaves 1
\* byte buffered; close() then makes exactly one final send, of that byte at
\* 'bytes <chunksize>-<chunksize>/<chunksize + 1>'.
C31_WriteScenario ==
    ScenarioHandle =>
       /\ (/\ WriteReturned
           /\ pre.written = 0
           /\ ret.args = <<BLOCK_MULTIPLE - 1>>)
          => (/\ requests = << >>
              /\ Flatten(buffer.queue) = Bytes(0, BLOCK_MULTIPLE - 1)
              /\ sent = << >>)
       /\ (/\ WriteReturned
           /\ pre.written = BLOCK_MULTIPLE - 1
           /\ pre.sent = 0
           /\ ret.args = <<BLOCK_MULTIPLE + 2>>)
          => (/\ OneSend(Some(0), Some(chunksize - 1), None,
                         Bytes(0, chunksize))
              /\ \A i \in 1..Len(requests) : ~requests[i].finalize
              /\ sent = Bytes(0, chunksize)
              /\ Flatten(buffer.queue) = Bytes(chunksize, chunksize + 1))
       /\ (/\ WriteCloseReturned
           /\ pre.written = chunksize + 1
           /\ pre.sent = chunksize)
          => (/\ OneSend(Some(chunksize), Some(chunksize),
                         Some(chunksize + 1), Bytes(chunksize, chunksize + 1))
              /\ \A i \in 1..Len(requests) : requests[i].finalize
              /\ sent = written
              /\ closed)

\* C31 witness: the close of the scenario returned; its only request is the
\* final send of the last byte
C31_Witness ==
    /\ ScenarioHandle
    /\ WriteCloseReturned
    /\ pre.written = 2 * BLOCK_MULTIPLE + 1
    /\ pre.sent = 2 * BLOCK_MULTIPLE
    /\ Len(requests) = 1
    /\ requests[1].first = Some(2 * BLOCK_MULTIPLE)
    /\ requests[1].last = Some(2 * BLOCK_MULTIPLE)
    /\ requests[1].total = Some(2 * BLOCK_MULTIPLE + 1)
    /\ closed

\* A read handle over an object of more than 2 and less than 3 chunks, at
\* the return of a read that found the buffer empty, the cursors at
\* position and the end of the object not reached
ScenarioRead(position) ==
    /\ ReadReturned
    /\ mode = "r"
    /\ 2 * chunksize < Len(content)
    /\ Len(content) < 3 * chunksize
    /\ pre.offset = position
    /\ pre.gcs_offset = position
    /\ pre.buffer = EmptyBuffer
    /\ ~pre.eof

\* C32 as stated: on an object of 2.5 chunks the first read() without a
\* size returns the first chunk only, after one fetch, and the end of the
\* object is not reached.
C32_ReadWithoutSizeReturnsOneChunk ==
    (ScenarioRead(0) /\ ret.args = <<None>>) =>
        /\ ret.data = Bytes(0, chunksize)
        /\ FirstAttempts = 1
        /\ ~eof

\* C32 amended: on a read handle over an object of 2.5 chunks, three
\* read(chunksize) calls return, in order, chunk 1, chunk 2 and the final
\* half chunk; each call makes one fetch (one call of _get_data, answered
\* once), and eof becomes true on the third fetch and not before.
C32_ReadScenario ==
    \A k \in 0..2 :
        (ScenarioRead(k * chunksize) /\ ret.args = <<Some(chunksize)>>) =>
            /\ ret.data = Bytes(k * chunksize,
                                Min((k + 1) * chunksize, Len(content)))
            /\ FirstAttempts = 1
            /\ Answered(206) = 1
            /\ requests[Len(requests)].first = Some(k * chunksize)
            /\ eof = (k = 2)
            /\ offset = pre.offset + Len(ret.data)
            /\ buffer = EmptyBuffer

\* C32 witness: the third read(chunksize) returned the final half chunk
\* after one fetch and eof is set
C32_Witness ==
    /\ ScenarioRead(2 * chunksize)
    /\ ret.args = <<Some(chunksize)>>
    /\ Len(content) = 2 * chunksize + chunksize \div 2
    /\ ret.data = Bytes(2 * chunksize, Len(content))
    /\ Len(requests) = 1
    /\ eof
    /\ offset = Len(content)

(***************************************************************************)
(* Order of the requests of a session (Spec).                              *)
(***************************************************************************)
\* The step issues a request for data (a range fetch or a chunk send with a
\* body) in a call that has issued another one before
NextDataRequest ==
    /\ Len(requests') = Len(requests) + 1
    /\ requests # << >>
    /\ requests'[Len(requests')].what = "data"
    /\ requests'[Len(requests')].first # None

\* The step issues a request for data
DataRequest ==
    /\ Len(requests') = Len(requests) + 1
    /\ requests'[Len(requests')].what = "data"
    /\ requests'[Len(requests')].first # None

\* The server accepted the request: a fetch answered with data, a
\* non-final chunk answered 308 or the final one answered 200
Accepted(r) ==
    \/ r.method = "GET" /\ r.status \in {200, 206}
    \/ r.method = "PUT" /\ r.status = (IF r.finalize THEN 200 ELSE 308)

\* C33 as stated: the remote cursor, where every fetch and every send
\* begins, never moves back, and a request for data begins strictly after
\* the request before it in the same call, retried or not.
C33_OffsetsStrictlyIncrease ==
    [][ /\ gcs_offset' >= gcs_offset
        /\ NextDataRequest =>
              Val(requests'[Len(requests')].first)
                 > Val(requests[Len(requests)].first)
      ]_vars

\* C33 amended: every fetch and every send with a body begins at the remote
\* cursor; the remote cursor advances by the bytes of every request the
\* server accepted (the final chunk, when accepted, closes the handle
\* instead) and only a seek() moves it back; in one call, the
\* request after an accepted one begins strictly after it, where the
\* accepted one ended, and the request after a failed one is the retry of
\* the same range.
C33_AcceptedOffsetsIncrease ==
    [][ /\ gcs_offset' < gcs_offset => ret'.op = "seek"
        /\ DataRequest =>
              LET r == requests'[Len(requests')]
              IN  /\ r.first = Some(gcs_offset)
                  /\ Accepted(r) =>
                        /\ Len(r.body) > 0
                        /\ IF r.finalize
                           THEN closed' /\ gcs_offset' = gcs_offset
                           ELSE gcs_offset' = gcs_offset + Len(r.body)
                  /\ ~Accepted(r) => gcs_offset' = gcs_offset
        /\ NextDataRequest =>
              LET r == requests'[Len(requests')]
                  q == requests[Len(requests)]
              IN  IF Accepted(q)
                  THEN /\ Val(r.first) = Val(q.first) + Len(q.body)
                       /\ Val(r.first) > Val(q.first)
                  ELSE /\ r.first = q.first
                       /\ r.last = q.last
                       /\ r.n = q.n + 1
      ]_vars

\* C33 witness: a read whose first fetch was retried at the same offset and
\* whose next fetch began after the chunk received
C33_Witness ==
    /\ ReadReturned
    /\ Len(requests) >= 3
    /\ ~Accepted(requests[1])
    /\ requests[2].first = requests[1].first
    /\ Accepted(requests[2])
    /\ Val(requests[3].first) = Val(requests[2].first) + chunksize

(***************************************************************************)
(* Cursors, buffer and size of an open handle (Spec).                      *)
(***************************************************************************)
\* An open handle of the given mode between two calls
OpenHandle(m) == pc = "idle" /\ mode = m /\ ~closed

\* C34: in every state of an open write handle the remote cursor is at most
\* the cursor, the position tell() returns, and the bytes buffered and not
\* yet sent are cursor - remote cursor.
C34_WriteCursorLeadsRemote ==
    OpenHandle("w") =>
        /\ gcs_offset <= offset
        /\ BufferLen(buffer) = offset - gcs_offset

\* The handle was opened for reading: the size of the object is known from
\* the answer to the open request
ReadHandle == mode = "r" /\ pc \in {"idle", "fetch"} /\ location = "object"

\* C35: on a read handle, whose size is known since the open, the cursor
\* stays within [0, size] through every read and seek, also while a read is
\* fetching chunks; the size, refreshed by the fetches that carry a total,
\* stays the length of the object.
C35_CursorWithinSize ==
    ReadHandle =>
        /\ 0 <= offset
        /\ offset <= size
        /\ size = Len(content)

\* C35 witness: a seek far beyond the end, made after a read had advanced
\* the cursor, left the cursor at the size
C35_Witness ==
    /\ OpenHandle("r")
    /\ ret.op = "seek" /\ ret.outcome = "ok"
    /\ ret.args = <<3 * BLOCK_MULTIPLE, SEEK_CUR>>
    /\ pre.offset > 0
    /\ size > 0
    /\ offset = size

(***************************************************************************)
(* End of the object as seen by the fetches (Spec).                        *)
(***************************************************************************)
\* The last request of the call is a range fetch that the server answered
AnsweredFetch ==
    /\ pc \in {"idle", "fetch"}
    /\ mode = "r"
    /\ requests # << >>
    /\ requests[Len(requests)].method = "GET"
    /\ requests[Len(requests)].what = "data"
    /\ requests[Len(requests)].status \in {200, 206, 416}

\* The fetches of the call that the server answered, 416 included
AnsweredFetches ==
    {i \in 1..Len(requests) : requests[i].status \in {200, 206, 416}}

\* A read() to the end, from the start, of an object of k chunks, k >= 1
ReadsWholeChunks(k) ==
    /\ ReadReturned
    /\ ret.args = <<None>>
    /\ pre.offset = 0 /\ pre.gcs_offset = 0 /\ ~pre.eof
    /\ pre.buffer.size = 0
    /\ Len(content) = k * chunksize

\* C36: after every answered fetch: a 416 sets eof, brings no bytes and is
\* not an error; an answer with a Content-Range total sets eof exactly when
\* total <= begin + bytes received and makes the total the size; an answer
\* without it sets eof exactly when fewer bytes than chunksize came.  Hence
\* a read to the end of an object of exactly k chunks makes k + 1 fetches
\* when no answer carries the total, the last one answered 416, and k
\* fetches when every answer carries it.
C36_EofPerFetch ==
    /\ AnsweredFetch =>
          LET r     == requests[Len(requests)]
              begin == Val(r.first)
          IN  /\ r.first = Some(gcs_offset - Len(r.body))
              /\ r.last = Some(begin + chunksize - 1)
              /\ IF r.status = 416
                 THEN /\ eof
                      /\ r.body = << >>
                      /\ ~(pc = "idle" /\ ret.outcome = "raise")
                 ELSE IF r.total # None
                 THEN /\ eof = (Val(r.total) <= begin + Len(r.body))
                      /\ size = Val(r.total)
                 ELSE /\ eof = (Len(r.body) < chunksize)
    /\ \A k \in 1..Len(content) :
          ReadsWholeChunks(k) =>
              /\ eof
              /\ (\A i \in AnsweredFetches : requests[i].total = None) =>
                    /\ Cardinality(AnsweredFetches) = k + 1
                    /\ requests[Len(requests)].status = 416
                    /\ Answered(416) = 1
              /\ (\A i \in AnsweredFetches : requests[i].total # None) =>
                    /\ Cardinality(AnsweredFetches) = k
                    /\ Answered(416) = 0

\* C36 witness: a read to the end of an object of two chunks that took three
\* fetches, none with a total, the last one answered 416
C36_Witness ==
    /\ ReadsWholeChunks(2)
    /\ Len(requests) = 3
    /\ \A i \in 1..3 : requests[i].total = None
    /\ requests[3].status = 416
    /\ requests[3].first = Some(2 * chunksize)
    /\ eof

\* A read to the end of an object of two chunks that took two fetches, both
\* with a total
C36_WitnessWithTotal ==
    /\ ReadsWholeChunks(2)
    /\ Len(requests) = 2
    /\ \A i \in 1..2 : requests[i].total # None
    /\ eof

(***************************************************************************)
(* Failures of a chunk send (Spec).                                        *)
(***************************************************************************)
\* The i-th request of the call is a chunk send that the server answered with
\* a status other than the one expected, 308 for a non-final chunk and 200
\* for the final one
UnexpectedSend(i) ==
    /\ requests[i].method = "PUT"
    /\ requests[i].what = "data"
    /\ ~Accepted(requests[i])

\* The failure of the i-th request ended the call and reached its caller
SendFailurePropagated(i) ==
    /\ i = Len(requests)
    /\ pc = "idle"
    /\ ret.op \in {"write", "close", "exit"}
    /\ ret.outcome = "raise"
    /\ ret.exc = "Http"
    /\ ret.code = requests[i].status

\* C37 as stated: a chunk send answered with an unexpected status is never
\* followed by another attempt, whatever the status and the retry
\* configuration, and its failure reaches the caller of write() or close().
C37_UnexpectedStatusIsFatal ==
    \A i \in 1..Len(requests) : UnexpectedSend(i) => SendFailurePropagated(i)

\* C37 amended: a chunk send answered with an unexpected status fails with
\* the Http failure of that status.  When the status is in the allow-list
\* of the retry wrapper and the handle's retry configuration allows one more
\* retry, the same chunk is sent again with the same range after a sleep;
\* in every other case (a status outside the allow-list, no retry
\* configuration, retries exhausted) nothing more is sent and the failure
\* reaches the caller of write() or close().
C37_UnexpectedStatusFailsTheSend ==
    \A i \in 1..Len(requests) :
        UnexpectedSend(i) =>
            LET r       == requests[i]
                retried == /\ r.status \in error_codes
                           /\ Resolved # None
                           /\ r.n < Val(Resolved).max_retries
            IN  IF retried
                THEN /\ Len(sleeps) >= r.n + 1
                     /\ IF i = Len(requests)
                        THEN pc = "send"
                        ELSE /\ requests[i + 1].n = r.n + 1
                             /\ requests[i + 1].body = r.body
                             /\ requests[i + 1].first = r.first
                             /\ requests[i + 1].last = r.last
                             /\ requests[i + 1].total = r.total
                ELSE SendFailurePropagated(i)

\* C37 witness: write() sent a chunk that was answered 503, sent it again
\* and got 404, which reached the caller
C37_Witness ==
    /\ pc = "idle" /\ mode = "w"
    /\ ret.op = "write" /\ ret.outcome = "raise" /\ ret.code = 404
    /\ Len(requests) = 2
    /\ requests[1].status = 503
    /\ requests[2].status = 404
    /\ requests[2].n = 1
    /\ requests[2].body = requests[1].body

\* C38: on an open read handle between two calls, cursor + len(buffer) is
\* the remote cursor and the buffered bytes are the bytes of the object from
\* the cursor to the remote cursor: after the open, after every read, also
\* one that raised after it had fetched and buffered some chunks, and after
\* every seek.
C38_ReadBufferSpansCursors ==
    OpenHandle("r") =>
        /\ offset + BufferLen(buffer) = gcs_offset
        /\ Flatten(buffer.queue) = SubSeq(content, offset + 1, gcs_offset)
        /\ gcs_offset <= Len(content)

\* C38 witness: a read raised after it had fetched two chunks, which stay
\* buffered while the cursor has not moved
C38_Witness ==
    /\ OpenHandle("r")
    /\ ret.op = "read" /\ ret.outcome = "raise"
    /\ Answered(206) = 2
    /\ Len(buffer.queue) = 2
    /\ offset = pre.offset
    /\ gcs_offset = pre.gcs_offset + 2 * chunksize

\* C39: on an open write handle on which no send has raised, so that every
\* write() returned normally, size, the number of bytes passed to write(),
\* is the remote cursor plus the bytes buffered, the remote cursor is a
\* multiple of chunksize and fewer than chunksize bytes are buffered.
C39_WriteSizeIsSentPlusBuffered ==
    (OpenHandle("w") /\ lost = << >>) =>
        /\ size = gcs_offset + BufferLen(buffer)
        /\ size = Len(written)
        /\ gcs_offset % chunksize = 0
        /\ gcs_offset = Len(sent)
        /\ BufferLen(buffer) < chunksize
        /\ Flatten(buffer.queue) = SubSeq(written, gcs_offset + 1, size)

\* C39 witness: a write returned after two chunks had been accepted in the
\* session, with one byte left in the buffer
C39_Witness ==
    /\ OpenHandle("w")
    /\ lost = << >>
    /\ WriteReturned
    /\ gcs_offset = 2 * chunksize
    /\ BufferLen(buffer) = 1
    /\ size = 2 * chunksize + 1

\* A write(), close() or __exit__ ended because the send of a chunk that
\* carried bytes raised
SendRaised ==
    /\ pc = "idle" /\ mode = "w"
    /\ ret.op \in {"write", "close", "exit"}
    /\ ret.outcome = "raise" /\ ret.exc = "Http"
    /\ requests # << >>
    /\ requests[Len(requests)].body # << >>

\* C40: when the send of a chunk raises during write() or close(), retries
\* exhausted or status not retried, the bytes of the chunk are in the buffer
\* no more, the remote cursor is where the chunk began and size still counts
\* them, so that size > remote cursor + len(buffer); the handle stays open;
\* and every close() that finds size ahead in this way declares as total
\* the number of bytes written, more than the bytes the server was sent.
C40_FailedSendLosesBytes ==
    /\ SendRaised =>
          LET r    == requests[Len(requests)]
              kept == BufferLen(buffer)
          IN  /\ ~closed
              /\ r.first = Some(gcs_offset)
              /\ size = Len(written)
              /\ size > gcs_offset + kept
              /\ size - (gcs_offset + kept) = Len(lost)
              /\ r.body = SubSeq(written, size - kept - Len(r.body) + 1, size - kept)
              /\ r.body = SubSeq(lost, Len(lost) - Len(r.body) + 1, Len(lost))
              /\ Flatten(buffer.queue) = SubSeq(written, size - kept + 1, size)
    /\ (WriteCloseEnded /\ pre.size > pre.gcs_offset + pre.buffer.size) =>
          /\ requests # << >>
          /\ \A i \in 1..Len(requests) :
                /\ requests[i].finalize
                /\ requests[i].total = Some(Len(written))
                /\ Len(written) > gcs_offset + Len(requests[i].body)
          /\ Len(sent) < Len(written)
          /\ ret.outcome = "ok" => (closed /\ Len(sent) + Len(lost) = Len(written))

\* C40 witness: a close() that the server accepted after a write() had lost
\* a chunk: the total it declared counts the lost chunk
C40_Witness ==
    /\ WriteCloseReturned
    /\ closed
    /\ Len(lost) = chunksize
    /\ Len(requests) = 1
    /\ requests[1].status = 200
    /\ requests[1].total = Some(Len(written))
    /\ Len(sent) = Len(written) - chunksize

\* A write() raised on the send of a chunk and left the handle open with
\* size ahead of the remote cursor and the buffer
C40_WitnessRaised ==
    /\ SendRaised
    /\ ret.op = "write"
    /\ ~closed
    /\ size = gcs_offset + BufferLen(buffer) + chunksize

====
